---- MODULE Spec2Model ----
(***************************************************************************)
(* Delivery service of amt-delivery2: record normalisation, status         *)
(* normalisation, numeric coercion, Haversine distance and the             *)
(* distance ranking (services/deliveryService.ts).                         *)
(*                                                                         *)
(* JavaScript strings are sequences of one-character strings.              *)
(* JavaScript numbers are decimal floating-point values with Precision     *)
(* significant digits: every arithmetic result is rounded to the nearest   *)
(* representable value, as IEEE-754 does with 53 bits, and there are the   *)
(* three special values NaN, Infinity and -Infinity.                       *)
(***************************************************************************)
EXTENDS Integers, Sequences, FiniteSets, TLC

(***************************************************************************)
(* JavaScript numbers                                                      *)
(***************************************************************************)

\* significant decimal digits of a number (53 bits in the program)
Precision == 4

\* the largest decimal exponent of a finite number
MaxExponent == 308

\* the smallest decimal exponent of a non-zero number
MinExponent == -324

RECURSIVE Pow10(_)
Pow10(n) == IF n <= 0 THEN 1 ELSE 10 * Pow10(n - 1)

Abs(x) == IF x < 0 THEN -x ELSE x

Sgn(x) == IF x < 0 THEN -1 ELSE IF x > 0 THEN 1 ELSE 0

RECURSIVE NumDigits(_)
NumDigits(n) == IF n < 10 THEN 1 ELSE 1 + NumDigits(n \div 10)

\* n / d rounded to the nearest integer, ties to even (n >= 0, d > 0)
RoundDiv(n, d) ==
  LET q == n \div d
      r == n % d
  IN  IF 2 * r > d \/ (2 * r = d /\ q % 2 = 1) THEN q + 1 ELSE q

NaN == [k |-> "nan", m |-> 0, e |-> 0]

PosInfinity == [k |-> "inf", m |-> 1, e |-> 0]

NegInfinity == [k |-> "inf", m |-> -1, e |-> 0]

Zero == [k |-> "fin", m |-> 0, e |-> 0]

\* a normalised mantissa and exponent as a number: overflow gives +-Infinity,
\* underflow gives 0
Mk(m, e) ==
  IF e + Precision - 1 > MaxExponent
    THEN (IF m < 0 THEN NegInfinity ELSE PosInfinity)
    ELSE IF e + Precision - 1 < MinExponent THEN Zero
    ELSE [k |-> "fin", m |-> m, e |-> e]

\* the number nearest to m * 10^e
Fin(m, e) ==
  LET a == Abs(m)
      nd == NumDigits(a)
  IN  IF m = 0 THEN Zero
      ELSE IF nd > Precision
        THEN LET q == RoundDiv(a, Pow10(nd - Precision))
             IN  IF q = Pow10(Precision)
                   THEN Mk(Sgn(m) * Pow10(Precision - 1), e + nd - Precision + 1)
                   ELSE Mk(Sgn(m) * q, e + nd - Precision)
        ELSE Mk(m * Pow10(Precision - nd), e - (Precision - nd))

\* the integer n as a number
Int2Num(n) == Fin(n, 0)

IsNaN(x) == x.k = "nan"

IsFinite(x) == x.k = "fin"

Neg(x) == [x EXCEPT !.m = -x.m]

\* x < y; false when either is NaN
Lt(x, y) ==
  IF IsNaN(x) \/ IsNaN(y) THEN FALSE
  ELSE IF x.k = "inf" THEN x.m < 0 /\ y # x
  ELSE IF y.k = "inf" THEN y.m > 0
  ELSE IF Sgn(x.m) # Sgn(y.m) THEN x.m < y.m
  ELSE IF x.m = 0 THEN FALSE
  ELSE IF x.e # y.e THEN (IF x.m > 0 THEN x.e < y.e ELSE x.e > y.e)
  ELSE x.m < y.m

\* x <= y; false when either is NaN
Le(x, y) == Lt(x, y) \/ (~IsNaN(x) /\ ~IsNaN(y) /\ x = y)

\* x + y
Add(x, y) ==
  IF IsNaN(x) \/ IsNaN(y) THEN NaN
  ELSE IF x.k = "inf" THEN (IF y.k = "inf" /\ y.m # x.m THEN NaN ELSE x)
  ELSE IF y.k = "inf" THEN y
  ELSE IF x.m = 0 THEN y
  ELSE IF y.m = 0 THEN x
  ELSE LET hi == IF x.e >= y.e THEN x ELSE y
           lo == IF x.e >= y.e THEN y ELSE x
           d == hi.e - lo.e
       IN  IF d > Precision + 1 THEN hi
           ELSE Fin(hi.m * Pow10(d) + lo.m, lo.e)

\* x - y
Sub(x, y) == Add(x, Neg(y))

\* x * y
Mul(x, y) ==
  IF IsNaN(x) \/ IsNaN(y) THEN NaN
  ELSE IF x.k = "inf" \/ y.k = "inf"
    THEN (IF x.m = 0 \/ y.m = 0 THEN NaN
          ELSE IF Sgn(x.m) = Sgn(y.m) THEN PosInfinity ELSE NegInfinity)
  ELSE Fin(x.m * y.m, x.e + y.e)

\* x / y
Div(x, y) ==
  IF IsNaN(x) \/ IsNaN(y) THEN NaN
  ELSE IF x.k = "inf"
    THEN (IF y.k = "inf" THEN NaN
          ELSE IF (x.m < 0) = (y.m < 0) THEN PosInfinity ELSE NegInfinity)
  ELSE IF y.k = "inf" THEN Zero
  ELSE IF y.m = 0
    THEN (IF x.m = 0 THEN NaN ELSE IF x.m > 0 THEN PosInfinity ELSE NegInfinity)
  ELSE IF x.m = 0 THEN Zero
  ELSE LET s == Sgn(x.m) * Sgn(y.m)
           n == Abs(x.m) * Pow10(Precision + 1)
           q == n \div Abs(y.m)
           sticky == IF n % Abs(y.m) = 0 THEN 0 ELSE 1
       IN  Fin(s * (10 * q + sticky), x.e - y.e - Precision - 2)

RECURSIVE ISqrtIn(_, _, _)
ISqrtIn(n, lo, hi) ==
  IF lo >= hi THEN lo
  ELSE LET mid == (lo + hi + 1) \div 2
       IN  IF mid * mid <= n THEN ISqrtIn(n, mid, hi) ELSE ISqrtIn(n, lo, mid - 1)

\* the largest integer whose square is at most n (0 <= n < 2^31)
ISqrt(n) == ISqrtIn(n, 0, 46340)

\* Math.sqrt: NaN for a negative argument
Sqrt(x) ==
  IF IsNaN(x) THEN NaN
  ELSE IF x.k = "inf" THEN (IF x.m > 0 THEN PosInfinity ELSE NaN)
  ELSE IF x.m < 0 THEN NaN
  ELSE IF x.m = 0 THEN Zero
  ELSE LET odd == (x.e % 2) # 0
           n == x.m * Pow10(Precision) * (IF odd THEN 10 ELSE 1)
           ee == (IF odd THEN x.e - 1 ELSE x.e) - Precision
           r == ISqrt(n)
           sticky == IF r * r = n THEN 0 ELSE 1
       IN  Fin(10 * r + sticky, (ee \div 2) - 1)

\* Math.PI
PI == Fin(3141593, -6)

HalfPi == Div(PI, Int2Num(2))

TwoPi == Mul(PI, Int2Num(2))

\* x / n for a small integer n
DivInt(x, n) == Div(x, Int2Num(n))

One == Int2Num(1)

\* 1 - x2/d1 (1 - x2/d2 (1 - ...)) for the denominators d from the i-th on
RECURSIVE Horner(_, _, _)
Horner(x2, denominators, i) ==
  IF i > Len(denominators) THEN One
  ELSE Sub(One, Mul(DivInt(x2, denominators[i]), Horner(x2, denominators, i + 1)))

\* the sine series on [0, pi/2]
SinSeries(x) == Mul(x, Horner(Mul(x, x), <<6, 20, 42, 72, 110>>, 1))

\* the cosine series on [0, pi/2]
CosSeries(x) == Horner(Mul(x, x), <<2, 12, 30, 56, 90, 132>>, 1)

RECURSIVE SinNonNeg(_)
SinNonNeg(x) ==
  IF Lt(TwoPi, x) THEN SinNonNeg(Sub(x, TwoPi))
  ELSE IF Lt(PI, x) THEN Neg(SinNonNeg(Sub(x, PI)))
  ELSE SinSeries(IF Lt(HalfPi, x) THEN Sub(PI, x) ELSE x)

\* |x|
AbsNum(x) == IF x.m < 0 THEN Neg(x) ELSE x

\* Math.sin: odd, NaN for a non-finite argument
Sin(x) ==
  IF ~IsFinite(x) THEN NaN
  ELSE IF x.m < 0 THEN Neg(SinNonNeg(AbsNum(x)))
  ELSE SinNonNeg(x)

RECURSIVE CosNonNeg(_)
CosNonNeg(x) ==
  IF Lt(TwoPi, x) THEN CosNonNeg(Sub(x, TwoPi))
  ELSE IF Lt(PI, x) THEN Neg(CosNonNeg(Sub(x, PI)))
  ELSE IF Lt(HalfPi, x) THEN Neg(CosNonNeg(Sub(PI, x)))
  ELSE CosSeries(x)

\* Math.cos: even, NaN for a non-finite argument
Cos(x) == IF ~IsFinite(x) THEN NaN ELSE CosNonNeg(AbsNum(x))

\* 1/n - u2 (1/(n+2) - u2 (...)) up to the term u2/9
RECURSIVE AtanTerms(_, _)
AtanTerms(u2, n) ==
  IF n >= 7 THEN Sub(DivInt(One, 7), DivInt(u2, 9))
  ELSE Sub(DivInt(One, n), Mul(u2, AtanTerms(u2, n + 2)))

\* the arctangent series for |u| <= tan(pi/8)
AtanSeries(u) == Mul(u, AtanTerms(Mul(u, u), 1))

\* the arctangent of t in [0, 1]
AtanUnit(t) ==
  IF Lt(Fin(4142, -4), t)
    THEN Add(DivInt(PI, 4), AtanSeries(Div(Sub(t, One), Add(t, One))))
    ELSE AtanSeries(t)

\* Math.atan2 for y >= 0 and x >= 0
Atan2Quadrant(y, x) ==
  IF y.m = 0 THEN Zero
  ELSE IF x.m = 0 THEN HalfPi
  ELSE IF y.k = "inf" THEN (IF x.k = "inf" THEN DivInt(PI, 4) ELSE HalfPi)
  ELSE IF x.k = "inf" THEN Zero
  ELSE IF Le(y, x) THEN AtanUnit(Div(y, x))
  ELSE Sub(HalfPi, AtanUnit(Div(x, y)))

\* the angle of the quadrant of (x, y) from the angle of (|x|, |y|)
Atan2Signed(y, x, angle) ==
  IF y.m < 0 /\ x.m < 0 THEN Sub(angle, PI)
  ELSE IF y.m < 0 THEN Neg(angle)
  ELSE IF x.m < 0 THEN Sub(PI, angle)
  ELSE angle

\* Math.atan2: NaN when either argument is NaN
Atan2(y, x) ==
  IF IsNaN(y) \/ IsNaN(x) THEN NaN
  ELSE Atan2Signed(y, x, Atan2Quadrant(AbsNum(y), AbsNum(x)))

(***************************************************************************)
(* Distance engine                                                         *)
(***************************************************************************)

\* Earth's radius in kilometers
R == 6371

toRadians(degrees) == Mul(degrees, DivInt(PI, 180))

\* a of calculateDistance from the sines of half the differences and the
\* cosines of the latitudes
HaversineTerm(sLat, sLon, cLat1, cLat2) ==
  Add(Mul(sLat, sLat), Mul(Mul(Mul(cLat1, cLat2), sLon), sLon))

\* a of calculateDistance
haversineA(lat1, lon1, lat2, lon2) ==
  HaversineTerm(Sin(DivInt(toRadians(Sub(lat2, lat1)), 2)),
                Sin(DivInt(toRadians(Sub(lon2, lon1)), 2)),
                Cos(toRadians(lat1)), Cos(toRadians(lat2)))

\* c of calculateDistance (mutant: the arguments of atan2 exchanged)
HaversineAngleExchanged(a) == Mul(Int2Num(2), Atan2(Sqrt(Sub(One, a)), Sqrt(a)))

HaversineAngle(a) == Mul(Int2Num(2), Atan2(Sqrt(a), Sqrt(Sub(One, a))))

calculateDistance(lat1, lon1, lat2, lon2) ==
  Mul(Int2Num(R), HaversineAngle(haversineA(lat1, lon1, lat2, lon2)))

(***************************************************************************)
(* JavaScript values and strings                                           *)
(***************************************************************************)

Undefined == [t |-> "undefined"]

Null == [t |-> "null"]

NumV(x) == [t |-> "number", n |-> x]

StrV(s) == [t |-> "string", s |-> s]

BoolV(b) == [t |-> "boolean", b |-> b]

\* the properties of a raw delivery record
Fields ==
  {"_id", "_creationTime", "externalId", "customerId", "driverId", "productId",
   "customerName", "customerPhone", "customerAddress", "latitude", "longitude",
   "status", "priority", "deliveryTime", "estimatedDeliveryTime", "notes",
   "orderValue", "createdAt", "updatedAt", "driver", "product", "customerRecord",
   "customerCity", "customerCountry"}

\* an object: f gives the value of each property, undefined when it has none
Object(f) == [t |-> "object", f |-> f]

\* a plain object with none of these properties
ObjV == Object([x \in Fields |-> Undefined])

\* the value of property x of value v; reading a property of a string, number
\* or boolean gives undefined, reading one of null or undefined throws
Get(v, x) == IF v.t = "object" THEN v.f[x] ELSE Undefined

\* v ? ... : ...
Truthy(v) ==
  IF v.t \in {"undefined", "null"} THEN FALSE
  ELSE IF v.t = "number" THEN ~IsNaN(v.n) /\ v.n # Zero
  ELSE IF v.t = "string" THEN v.s # <<>>
  ELSE IF v.t = "boolean" THEN v.b
  ELSE TRUE

\* v ?? ...
Nullish(v) == v.t \in {"undefined", "null"}

\* the white space characters of String.prototype.trim and of the \s class
WhiteSpace == {" ", "\t", "\n"}

UpperCaseLetters == <<"A", "B", "C", "D", "E", "F", "G", "H", "I", "J", "K", "L", "M", "N", "O", "P", "Q", "R", "S", "T", "U", "V", "W", "X", "Y", "Z">>

LowerCaseLetters == <<"a", "b", "c", "d", "e", "f", "g", "h", "i", "j", "k", "l", "m", "n", "o", "p", "q", "r", "s", "t", "u", "v", "w", "x", "y", "z">>

toLowerCaseChar(c) ==
  IF \E i \in 1..26 : UpperCaseLetters[i] = c
    THEN LowerCaseLetters[CHOOSE i \in 1..26 : UpperCaseLetters[i] = c]
    ELSE c

toUpperCaseChar(c) ==
  IF \E i \in 1..26 : LowerCaseLetters[i] = c
    THEN UpperCaseLetters[CHOOSE i \in 1..26 : LowerCaseLetters[i] = c]
    ELSE c

\* String.prototype.toLowerCase
toLowerCase(s) == [i \in 1..Len(s) |-> toLowerCaseChar(s[i])]

RECURSIVE trimStart(_)
trimStart(s) ==
  IF s # <<>> /\ Head(s) \in WhiteSpace THEN trimStart(Tail(s)) ELSE s

RECURSIVE trimEnd(_)
trimEnd(s) ==
  IF s # <<>> /\ s[Len(s)] \in WhiteSpace
    THEN trimEnd(SubSeq(s, 1, Len(s) - 1))
    ELSE s

\* String.prototype.trim
trim(s) == trimEnd(trimStart(s))

\* String.prototype.replace(/\s+/g, "_"): every maximal run of white space
\* becomes one underscore
RECURSIVE replaceWhiteSpaceRuns(_)
replaceWhiteSpaceRuns(s) ==
  IF s = <<>> THEN <<>>
  ELSE IF Head(s) \in WhiteSpace
    THEN <<"_">> \o replaceWhiteSpaceRuns(trimStart(s))
    ELSE <<Head(s)>> \o replaceWhiteSpaceRuns(Tail(s))

(***************************************************************************)
(* Numeric coercion                                                        *)
(***************************************************************************)

DecimalDigits == <<"0", "1", "2", "3", "4", "5", "6", "7", "8", "9">>

IsDigit(c) == \E d \in 1..10 : DecimalDigits[d] = c

DigitValue(c) == (CHOOSE d \in 1..10 : DecimalDigits[d] = c) - 1

\* the first position at or after i of s that holds no digit
RECURSIVE DigitsEnd(_, _)
DigitsEnd(s, i) ==
  IF i <= Len(s) /\ IsDigit(s[i]) THEN DigitsEnd(s, i + 1) ELSE i

\* the value of the digits s[i..j-1]
RECURSIVE DigitsValue(_, _, _)
DigitsValue(s, i, j) ==
  IF j <= i THEN 0 ELSE 10 * DigitsValue(s, i, j - 1) + DigitValue(s[j - 1])

S_Infinity == <<"I", "n", "f", "i", "n", "i", "t", "y">>

StartsWith(s, i, word) ==
  /\ i + Len(word) - 1 <= Len(s)
  /\ SubSeq(s, i, i + Len(word) - 1) = word

\* the StrDecimalLiteral of s that starts at start: its sign ends before i0, its
\* integer digits before i1, its fraction before i2, and its exponent, when
\* e1 > e0, has its digits from e0 to before e1
DecimalLiteral(s, start, i0, i1, i2, e0, e1) ==
  LET negative == i0 > start /\ s[start] = "-"
      fracLen == IF i2 > i1 THEN i2 - i1 - 1 ELSE 0
      exponent == IF e1 <= e0 THEN 0
                  ELSE IF s[e0 - 1] = "-" THEN -DigitsValue(s, e0, e1)
                  ELSE DigitsValue(s, e0, e1)
      mantissa == DigitsValue(s, i0, i1) * Pow10(fracLen) + DigitsValue(s, i1 + 1, i2)
  IN  IF StartsWith(s, i0, S_Infinity)
        THEN [value |-> IF negative THEN NegInfinity ELSE PosInfinity, end |-> i0 + 8]
      ELSE IF i1 = i0 /\ fracLen = 0 THEN [value |-> NaN, end |-> start]
      ELSE [value |-> IF negative THEN Neg(Fin(mantissa, exponent - fracLen))
                      ELSE Fin(mantissa, exponent - fracLen),
            end |-> IF e1 > e0 THEN e1 ELSE i2]

\* the digits of the exponent, which start at e0 when e0 > 0
ExponentDigits(s, start, i0, i1, i2, e0) ==
  DecimalLiteral(s, start, i0, i1, i2, e0, IF e0 > 0 THEN DigitsEnd(s, e0) ELSE 0)

\* the exponent indicator and its sign
ExponentPart(s, start, i0, i1, i2) ==
  ExponentDigits(s, start, i0, i1, i2,
                 IF i2 <= Len(s) /\ s[i2] \in {"e", "E"}
                   THEN (IF i2 + 1 <= Len(s) /\ s[i2 + 1] \in {"+", "-"}
                           THEN i2 + 2 ELSE i2 + 1)
                   ELSE 0)

\* the point and the digits of the fraction
FractionPart(s, start, i0, i1) ==
  ExponentPart(s, start, i0, i1,
               IF i1 <= Len(s) /\ s[i1] = "." THEN DigitsEnd(s, i1 + 1) ELSE i1)

\* the digits of the integer
IntegerPart(s, start, i0) == FractionPart(s, start, i0, DigitsEnd(s, i0))

\* the sign
SignPart(s, start) ==
  IntegerPart(s, start,
              IF start <= Len(s) /\ s[start] \in {"+", "-"} THEN start + 1 ELSE start)

\* the longest prefix of s that is a StrDecimalLiteral after leading white
\* space: its value and the position after it in s; NaN when there is none
parseFloatPrefix(s) == SignPart(s, Len(s) - Len(trimStart(s)) + 1)

\* Number.parseFloat
parseFloat(s) == parseFloatPrefix(s).value

\* this.toNumber (mutant: without the checks that the number is finite)
toNumberUnchecked(value, fallback) ==
  IF value.t = "number" THEN value.n
  ELSE IF value.t = "string" THEN parseFloat(value.s)
  ELSE fallback

toNumber(value, fallback) ==
  IF value.t = "number" /\ IsFinite(value.n) THEN value.n
  ELSE IF value.t = "string"
    THEN LET parsed == parseFloat(value.s)
         IN  IF ~IsNaN(parsed) /\ IsFinite(parsed) THEN parsed ELSE fallback
  ELSE fallback

(***************************************************************************)
(* Status normalisation                                                    *)
(***************************************************************************)

Pending == <<"P", "e", "n", "d", "i", "n", "g">>

OnWay == <<"O", "n", " ", "W", "a", "y">>

Delivered == <<"D", "e", "l", "i", "v", "e", "r", "e", "d">>

NoAnswer == <<"N", "o", " ", "A", "n", "s", "w", "e", "r">>

Cancelled == <<"C", "a", "n", "c", "e", "l", "l", "e", "d">>

\* Delivery['status']
Statuses == {Pending, OnWay, Delivered, NoAnswer, Cancelled}

\* the keys of Pending
PendingKeys ==
  {<<"p", "e", "n", "d", "i", "n", "g">>,
   <<"n", "o", "t", "_", "s", "t", "a", "r", "t", "e", "d">>}

\* the keys of On Way
OnWayKeys ==
  {<<"o", "n", "_", "w", "a", "y">>,
   <<"i", "n", "_", "p", "r", "o", "g", "r", "e", "s", "s">>,
   <<"i", "n", "p", "r", "o", "g", "r", "e", "s", "s">>,
   <<"o", "n", "w", "a", "y">>,
   <<"o", "n", " ", "w", "a", "y">>}

\* the keys of Delivered
DeliveredKeys ==
  {<<"d", "e", "l", "i", "v", "e", "r", "e", "d">>,
   <<"c", "o", "m", "p", "l", "e", "t", "e", "d">>,
   <<"c", "o", "m", "p", "l", "e", "t", "e">>}

\* the keys of No Answer
NoAnswerKeys ==
  {<<"n", "o", "_", "a", "n", "s", "w", "e", "r">>,
   <<"n", "o", "a", "n", "s", "w", "e", "r">>}

\* the keys of Cancelled
CancelledKeys ==
  {<<"c", "a", "n", "c", "e", "l", "l", "e", "d">>,
   <<"c", "a", "n", "c", "e", "l", "e", "d">>}

\* normalizeStatus with the final default forgotten: an unmatched string is
\* returned as it is
normalizeStatusPassThrough(value) ==
  IF value.t = "string"
    THEN LET normalized == replaceWhiteSpaceRuns(toLowerCase(trim(value.s)))
         IN  IF normalized \in PendingKeys THEN Pending
             ELSE IF normalized \in OnWayKeys
               THEN OnWay
             ELSE IF normalized \in DeliveredKeys THEN Delivered
             ELSE IF normalized \in NoAnswerKeys THEN NoAnswer
             ELSE IF normalized \in CancelledKeys THEN Cancelled
             ELSE value.s
    ELSE Pending

\* normalizeStatus with the trim forgotten
normalizeStatusNoTrim(value) ==
  IF value.t = "string"
    THEN LET normalized == replaceWhiteSpaceRuns(toLowerCase(value.s))
         IN  IF normalized \in PendingKeys THEN Pending
             ELSE IF normalized \in OnWayKeys
               THEN OnWay
             ELSE IF normalized \in DeliveredKeys THEN Delivered
             ELSE IF normalized \in NoAnswerKeys THEN NoAnswer
             ELSE IF normalized \in CancelledKeys THEN Cancelled
             ELSE IF value.s \in {Pending, OnWay, Delivered, NoAnswer, Cancelled}
               THEN value.s
             ELSE Pending
    ELSE Pending

\* normalizeStatus returning the matched key instead of the label for the
\* no-answer words
normalizeStatusKeyReturned(value) ==
  IF value.t = "string"
    THEN LET normalized == replaceWhiteSpaceRuns(toLowerCase(trim(value.s)))
         IN  IF normalized \in PendingKeys THEN Pending
             ELSE IF normalized \in OnWayKeys
               THEN OnWay
             ELSE IF normalized \in DeliveredKeys THEN Delivered
             ELSE IF normalized \in NoAnswerKeys THEN normalized
             ELSE IF normalized \in CancelledKeys THEN Cancelled
             ELSE IF value.s \in {Pending, OnWay, Delivered, NoAnswer, Cancelled}
               THEN value.s
             ELSE Pending
    ELSE Pending

normalizeStatus(value) ==
  IF value.t = "string"
    THEN LET normalized == replaceWhiteSpaceRuns(toLowerCase(trim(value.s)))
         IN  IF normalized \in PendingKeys THEN Pending
             ELSE IF normalized \in OnWayKeys
               THEN OnWay
             ELSE IF normalized \in DeliveredKeys THEN Delivered
             ELSE IF normalized \in NoAnswerKeys THEN NoAnswer
             ELSE IF normalized \in CancelledKeys THEN Cancelled
             ELSE IF value.s \in {Pending, OnWay, Delivered, NoAnswer, Cancelled}
               THEN value.s
             ELSE Pending
    ELSE Pending

(***************************************************************************)
(* Conversions to string                                                   *)
(***************************************************************************)

\* the decimal digits of the integer n >= 0
RECURSIVE IntDigits(_)
IntDigits(n) ==
  IF n < 10 THEN <<DecimalDigits[n + 1]>>
  ELSE IntDigits(n \div 10) \o <<DecimalDigits[(n % 10) + 1]>>

\* n zeros
RECURSIVE Zeros(_)
Zeros(n) == IF n <= 0 THEN <<>> ELSE <<"0">> \o Zeros(n - 1)

\* m without its trailing zeros (m > 0)
RECURSIVE StripZeros(_)
StripZeros(m) == IF m % 10 = 0 THEN StripZeros(m \div 10) ELSE m

\* Number::toString of a finite number x > 0
PositiveToString(x) ==
  LET digits == IntDigits(StripZeros(x.m))
      k == Len(digits)
      n == x.e + Precision
  IN  IF k <= n /\ n <= 21 THEN digits \o Zeros(n - k)
      ELSE IF 0 < n /\ n <= 21
        THEN SubSeq(digits, 1, n) \o <<".">> \o SubSeq(digits, n + 1, k)
      ELSE IF -6 < n /\ n <= 0 THEN <<"0", ".">> \o Zeros(-n) \o digits
      ELSE LET mantissa == IF k = 1 THEN digits
                           ELSE <<digits[1], ".">> \o SubSeq(digits, 2, k)
               sign == IF n - 1 < 0 THEN <<"-">> ELSE <<"+">>
           IN  mantissa \o <<"e">> \o sign \o IntDigits(Abs(n - 1))

\* Number::toString
NumberToString(x) ==
  IF IsNaN(x) THEN <<"N", "a", "N">>
  ELSE IF x.k = "inf" THEN (IF x.m < 0 THEN <<"-">> ELSE <<>>) \o S_Infinity
  ELSE IF x.m = 0 THEN <<"0">>
  ELSE IF x.m < 0 THEN <<"-">> \o PositiveToString(Neg(x))
  ELSE PositiveToString(x)

\* String(v)
String(v) ==
  IF v.t = "string" THEN v.s
  ELSE IF v.t = "number" THEN NumberToString(v.n)
  ELSE IF v.t = "boolean" THEN (IF v.b THEN <<"t", "r", "u", "e">> ELSE <<"f", "a", "l", "s", "e">>)
  ELSE IF v.t = "null" THEN <<"n", "u", "l", "l">>
  ELSE IF v.t = "undefined" THEN <<"u", "n", "d", "e", "f", "i", "n", "e", "d">>
  ELSE <<"[", "o", "b", "j", "e", "c", "t", " ", "O", "b", "j", "e", "c", "t", "]">>

(***************************************************************************)
(* Dates                                                                   *)
(*                                                                         *)
(* A time is a number of milliseconds. The ISO string of a time is written *)
(* here as "T" followed by the milliseconds in decimal.                    *)
(***************************************************************************)

\* x rounded toward zero
Trunc(x) ==
  IF ~IsFinite(x) \/ x.e >= 0 THEN x
  ELSE IF -x.e >= Precision THEN Zero
  ELSE Fin(Sgn(x.m) * (Abs(x.m) \div Pow10(-x.e)), 0)

\* the largest time of a Date: 8.64e15 ms
MaxTimeValue == Fin(864, 13)

\* TimeClip
TimeClip(x) ==
  IF ~IsFinite(x) THEN NaN
  ELSE IF Lt(MaxTimeValue, x) \/ Lt(x, Neg(MaxTimeValue)) THEN NaN
  ELSE Trunc(x)

\* Date.prototype.toISOString of a valid time
IsoString(time) == <<"T">> \o NumberToString(time)

\* s is the ISO string of a time
IsIsoString(s) ==
  /\ Len(s) >= 2
  /\ s[1] = "T"
  /\ LET rest == Tail(s)
         body == IF rest[1] = "-" THEN Tail(rest) ELSE rest
     IN  body # <<>> /\ DigitsEnd(body, 1) = Len(body) + 1

\* Date.parse of a string that is an ISO string or holds no date at all
DateParse(s) ==
  IF IsIsoString(s) THEN TimeClip(parseFloat(Tail(s))) ELSE NaN

\* the time value of new Date(v)
DateTime(v) ==
  IF v.t = "number" THEN TimeClip(v.n)
  ELSE IF v.t = "string" THEN DateParse(v.s)
  ELSE IF v.t = "boolean" THEN (IF v.b THEN One ELSE Zero)
  ELSE IF v.t = "null" THEN Zero
  ELSE NaN

(***************************************************************************)
(* Record normaliser                                                       *)
(***************************************************************************)

\* Delivery['priority']
Priorities ==
  {<<"l", "o", "w">>, <<"m", "e", "d", "i", "u", "m">>, <<"h", "i", "g", "h">>,
   <<"u", "r", "g", "e", "n", "t">>}

\* a call that returned value
Returned(value) == [threw |-> FALSE, value |-> value]

\* a call that threw an error
Threw(error) == [threw |-> TRUE, error |-> error]

\* record[x] ? String(record[x]) : undefined
StringOrUndefined(v) == IF Truthy(v) THEN StrV(String(v)) ELSE Undefined

\* v ?? d
OrElse(v, d) == IF Nullish(v) THEN d ELSE v

\* mapFromConvex(record) at the time now
mapFromConvex(record, now) ==
  IF record.t \in {"null", "undefined"} THEN Threw("TypeError")
  ELSE
    LET creationTime == Get(record, "_creationTime")
        derived == IF Truthy(creationTime) THEN DateTime(creationTime) ELSE now
        createdAt == OrElse(Get(record, "createdAt"), StrV(IsoString(derived)))
        updatedAt == OrElse(Get(record, "updatedAt"), createdAt)
        orderValue == IF Get(record, "orderValue") = Undefined THEN Undefined
                      ELSE NumV(toNumber(Get(record, "orderValue"), Zero))
    IN  IF Nullish(Get(record, "createdAt")) /\ IsNaN(derived) THEN Threw("RangeError")
        ELSE Returned(
          [_id |-> IF Truthy(Get(record, "_id")) THEN StrV(String(Get(record, "_id")))
                   ELSE StrV(<<>>),
           externalId |-> Get(record, "externalId"),
           customerId |-> StringOrUndefined(Get(record, "customerId")),
           driverId |-> StringOrUndefined(Get(record, "driverId")),
           productId |-> StringOrUndefined(Get(record, "productId")),
           customerName |-> OrElse(Get(record, "customerName"), StrV(<<>>)),
           customerPhone |-> OrElse(Get(record, "customerPhone"), StrV(<<>>)),
           customerAddress |-> OrElse(Get(record, "customerAddress"), StrV(<<>>)),
           latitude |-> NumV(toNumber(Get(record, "latitude"), Zero)),
           longitude |-> NumV(toNumber(Get(record, "longitude"), Zero)),
           status |-> StrV(normalizeStatus(Get(record, "status"))),
           priority |-> OrElse(Get(record, "priority"), StrV(<<"m", "e", "d", "i", "u", "m">>)),
           estimatedDeliveryTime |-> OrElse(Get(record, "estimatedDeliveryTime"), Undefined),
           notes |-> OrElse(Get(record, "notes"), Undefined),
           orderValue |-> orderValue,
           createdAt |-> createdAt,
           updatedAt |-> updatedAt,
           driver |-> Get(record, "driver"),
           product |-> Get(record, "product"),
           customerRecord |-> Get(record, "customerRecord"),
           customerCity |-> OrElse(Get(record, "customerCity"), Undefined),
           customerCountry |-> OrElse(Get(record, "customerCountry"), Undefined)])

\* the result of client.query: an array of records, another value, or an error
ArrayResponse(items) == [kind |-> "array", items |-> items]

ValueResponse(v) == [kind |-> "value", v |-> v]

ErrorResponse == [kind |-> "error"]

\* getDeliveries once the query has answered: the list returned
getDeliveriesFrom(response, now) ==
  IF response.kind # "array" THEN <<>>
  ELSE IF \E i \in 1..Len(response.items) : mapFromConvex(response.items[i], now).threw
    THEN <<>>
  ELSE [i \in 1..Len(response.items) |-> mapFromConvex(response.items[i], now).value]

(***************************************************************************)
(* Ranking pipeline                                                        *)
(***************************************************************************)

\* Math.round of a finite number: the nearest integer, ties toward +Infinity
MathRound(x) ==
  IF ~IsFinite(x) \/ x.e >= 0 THEN x
  ELSE IF -x.e > Precision + 1 THEN Zero
  ELSE Fin((2 * x.m + Pow10(-x.e)) \div (2 * Pow10(-x.e)), 0)

\* the number of tenths nearest to the finite number x >= 0 with x.e < 0, ties
\* to the larger
Tenths(x) ==
  IF x.e = -1 THEN x.m
  ELSE IF -x.e - 1 > Precision + 1 THEN 0
  ELSE (2 * x.m + Pow10(-x.e - 1)) \div (2 * Pow10(-x.e - 1))

\* Number.prototype.toFixed(1)
toFixed1(x) ==
  IF ~IsFinite(x) \/ x.e + Precision > 21 THEN NumberToString(x)
  ELSE LET a == IF x.m < 0 THEN Neg(x) ELSE x
           sign == IF x.m < 0 THEN <<"-">> ELSE <<>>
       IN  IF a.e >= 0
             THEN sign \o IntDigits(a.m) \o Zeros(IF a.m = 0 THEN 0 ELSE a.e) \o <<".", "0">>
             ELSE sign \o IntDigits(Tenths(a) \div 10) \o <<".">>
                       \o IntDigits(Tenths(a) % 10)

\* a distance in kilometres as text (mutant: kilometres at every size)
formatDistanceKmOnly(distance) == toFixed1(distance) \o <<"k", "m">>

formatDistance(distance) ==
  IF Lt(distance, One)
    THEN NumberToString(MathRound(Mul(distance, Int2Num(1000)))) \o <<"m">>
    ELSE toFixed1(distance) \o <<"k", "m">>

\* a position of the driver
DriverLocation(latitude, longitude) == [latitude |-> latitude, longitude |-> longitude]

\* the delivery with its distance and the text of that distance (mutant:
\* without the fields of the delivery)
attachDistanceOnly(delivery, distance) ==
  [distance |-> NumV(distance), distanceText |-> StrV(formatDistance(distance))]

attachDistance(delivery, distance) ==
  [x \in DOMAIN delivery \cup {"distance", "distanceText"} |->
     IF x = "distance" THEN NumV(distance)
     ELSE IF x = "distanceText" THEN StrV(formatDistance(distance))
     ELSE delivery[x]]

\* the callback of the map in sortDeliveriesByDistance
withDistance(delivery, driverLocation) ==
  attachDistance(delivery,
                 calculateDistance(driverLocation.latitude, driverLocation.longitude,
                                   delivery.latitude.n, delivery.longitude.n))

\* the comparator of the sort, a.distance - b.distance, as the sort reads it: a
\* result of NaN counts as 0
compareDistance(a, b) ==
  LET v == Sub(a.distance.n, b.distance.n)
  IN  IF IsNaN(v) THEN 0 ELSE Sgn(v.m)

\* the comparator orders the elements consistently: being equal is transitive
ConsistentComparator(list) ==
  \A i, j, k \in 1..Len(list) :
    (compareDistance(list[i], list[j]) = 0 /\ compareDistance(list[j], list[k]) = 0)
      => compareDistance(list[i], list[k]) = 0

\* x put into the sorted list after every element that does not come after it
RECURSIVE InsertSorted(_, _)
InsertSorted(x, sorted) ==
  IF sorted = <<>> THEN <<x>>
  ELSE IF compareDistance(x, Head(sorted)) < 0 THEN <<x>> \o sorted
  ELSE <<Head(sorted)>> \o InsertSorted(x, Tail(sorted))

\* the stable sort of list by the comparator
RECURSIVE StableSort(_)
StableSort(list) ==
  IF list = <<>> THEN <<>>
  ELSE InsertSorted(list[Len(list)], StableSort(SubSeq(list, 1, Len(list) - 1)))

\* the orders of 1..n
Orders(n) == {p \in [1..n -> 1..n] : \A i, j \in 1..n : p[i] = p[j] => i = j}

\* the lists Array.prototype.sort may leave: the stable sort when the comparator
\* is consistent, and otherwise an order the engine chooses
SortOutcomes(list) ==
  IF ConsistentComparator(list) THEN {StableSort(list)}
  ELSE {[i \in 1..Len(list) |-> list[p[i]]] : p \in Orders(Len(list))}

\* the map of sortDeliveriesByDistance
mapWithDistance(deliveries, driverLocation) ==
  [i \in 1..Len(deliveries) |-> withDistance(deliveries[i], driverLocation)]

\* the lists sortDeliveriesByDistance may return
sortDeliveriesByDistance(deliveries, driverLocation) ==
  SortOutcomes(mapWithDistance(deliveries, driverLocation))

(***************************************************************************)
(* State                                                                   *)
(*                                                                         *)
(* The service object keeps nothing between calls but its client, so the   *)
(* state is the arguments and the result of the call being made.           *)
(*                                                                         *)
(* normalizeStatus: statusBase is the word the caller started from,        *)
(* statusValue the value passed (the word with some letters upper-cased,   *)
(* white space around it and its separator written as white space),        *)
(* statusResult the status returned, statusCalls how many times in a row a *)
(* result was normalised and statusPrev the result before the last call.   *)
(*                                                                         *)
(* toNumber: numberValue is the value passed, numberFallback the fallback  *)
(* passed, numberResult the number returned and numberCalled whether the   *)
(* call was made.                                                          *)
(*                                                                         *)
(* mapFromConvex: rawRecord is the record passed, mapTime the time of the  *)
(* call, mapResult what the call returned or threw and mapCalled whether   *)
(* the call was made.                                                      *)
(*                                                                         *)
(* getDeliveries: response is the answer of the query, queryArgs the       *)
(* arguments of the query, fetchTime the time of the call, fetched the     *)
(* list returned and fetchCalled whether the call was made.                *)
(*                                                                         *)
(* sortDeliveriesByDistance: deliveries is the list passed, driverLocation *)
(* the position passed, ranked the list returned and rankCalled whether    *)
(* the call was made.                                                      *)
(***************************************************************************)

VARIABLES statusBase, statusValue, statusResult, statusCalls, statusPrev,
          numberValue, numberFallback, numberResult, numberCalled,
          rawRecord, mapTime, mapResult, mapCalled,
          response, queryArgs, fetchTime, fetched, fetchCalled,
          deliveries, driverLocation, ranked, rankCalled

statusVars == <<statusBase, statusValue, statusResult, statusCalls, statusPrev>>

numberVars == <<numberValue, numberFallback, numberResult, numberCalled>>

recordVars == <<rawRecord, mapTime, mapResult, mapCalled>>

fetchVars == <<response, queryArgs, fetchTime, fetched, fetchCalled>>

rankVars == <<deliveries, driverLocation, ranked, rankCalled>>

\* the variables of an operation while no call of it is made
StatusIdle ==
  /\ statusBase = <<>>
  /\ statusValue = Undefined
  /\ statusResult = <<>>
  /\ statusCalls = 0
  /\ statusPrev = <<>>

NumberIdle ==
  /\ numberValue = Undefined
  /\ numberFallback = Zero
  /\ numberResult = Zero
  /\ numberCalled = FALSE

RecordIdle ==
  /\ rawRecord = Undefined
  /\ mapTime = Zero
  /\ mapResult = Threw("none")
  /\ mapCalled = FALSE

FetchIdle ==
  /\ response = ErrorResponse
  /\ queryArgs = <<>>
  /\ fetchTime = Zero
  /\ fetched = <<>>
  /\ fetchCalled = FALSE

RankIdle ==
  /\ deliveries = <<>>
  /\ driverLocation = DriverLocation(Zero, Zero)
  /\ ranked = <<>>
  /\ rankCalled = FALSE

VARIABLES formatMantissa, formatExponent, formatResult, formatCalled

formatVars == <<formatMantissa, formatExponent, formatResult, formatCalled>>

FormatIdle ==
  /\ formatMantissa = 0
  /\ formatExponent = 0
  /\ formatResult = <<>>
  /\ formatCalled = FALSE

VARIABLES fromPoint, toPoint, distanceThere, distanceBack, distanceSelf, distanceCalled

distanceVars == <<fromPoint, toPoint, distanceThere, distanceBack, distanceSelf, distanceCalled>>

DistanceIdle ==
  /\ fromPoint = <<0, 0>>
  /\ toPoint = <<0, 0>>
  /\ distanceThere = Zero
  /\ distanceBack = Zero
  /\ distanceSelf = Zero
  /\ distanceCalled = FALSE

VARIABLES viewDriverId, locationKnown, shown, loadCalled

viewVars == <<viewDriverId, locationKnown, shown, loadCalled>>

ViewIdle ==
  /\ viewDriverId = Undefined
  /\ locationKnown = FALSE
  /\ shown = <<>>
  /\ loadCalled = FALSE

VARIABLES deliveriesTable, clock, lastMutation

storeVars == <<deliveriesTable, clock, lastMutation>>

StoreIdle ==
  /\ deliveriesTable = <<>>
  /\ clock = 0
  /\ lastMutation = <<>>

VARIABLES serviceCall, serviceOutcome

serviceVars == <<serviceCall, serviceOutcome>>

ServiceIdle ==
  /\ serviceCall = <<>>
  /\ serviceOutcome = Threw("none")

VARIABLES adminTables, adminCalls, adminCall, adminOutcome

adminVars == <<adminTables, adminCalls, adminCall, adminOutcome>>

AdminIdle ==
  /\ adminTables = <<>>
  /\ adminCalls = 0
  /\ adminCall = <<>>
  /\ adminOutcome = Threw("none")

VARIABLES geolocationSupported, positionRequest, locationPromise, resolveCalls

geoVars == <<geolocationSupported, positionRequest, locationPromise, resolveCalls>>

GeoIdle ==
  /\ geolocationSupported = FALSE
  /\ positionRequest = "none"
  /\ locationPromise = <<>>
  /\ resolveCalls = 0

VARIABLES customersTable, linkedDeliveries, deliveriesBefore, deletedCustomers, listArgs, listed

relationVars == <<customersTable, linkedDeliveries, deliveriesBefore, deletedCustomers, listArgs, listed>>

RelationIdle ==
  /\ customersTable = {}
  /\ linkedDeliveries = <<>>
  /\ deliveriesBefore = <<>>
  /\ deletedCustomers = {}
  /\ listArgs = <<>>
  /\ listed = <<>>

VARIABLES objectHeap, inputArray, locationObject, returnedArray, atCall

heapVars == <<objectHeap, inputArray, locationObject, returnedArray, atCall>>

HeapIdle ==
  /\ objectHeap = <<>>
  /\ inputArray = <<>>
  /\ locationObject = <<>>
  /\ returnedArray = <<>>
  /\ atCall = <<>>

VARIABLES cardStatus, storedStatus, mutationQueue, lastClick

cardVars == <<cardStatus, storedStatus, mutationQueue, lastClick>>

CardIdle ==
  /\ cardStatus = <<>>
  /\ storedStatus = <<>>
  /\ mutationQueue = <<>>
  /\ lastClick = <<>>

VARIABLES listLocation, locationPermission, filter, loading, listDeliveries, loads,
          locationRequests, locationsObtained

listVars == <<listLocation, locationPermission, filter, loading, listDeliveries, loads,
              locationRequests, locationsObtained>>

ListIdle ==
  /\ listLocation = 0
  /\ locationPermission = "null"
  /\ filter = "all"
  /\ loading = FALSE
  /\ listDeliveries = <<>>
  /\ loads = <<>>
  /\ locationRequests = <<>>
  /\ locationsObtained = 0

VARIABLES orders, localOrders, storedOrders, updateRequests, acceptedEdits, updatesMade

gridVars == <<orders, localOrders, storedOrders, updateRequests, acceptedEdits, updatesMade>>

GridIdle ==
  /\ orders = <<>>
  /\ localOrders = <<>>
  /\ storedOrders = <<>>
  /\ updateRequests = <<>>
  /\ acceptedEdits = <<>>
  /\ updatesMade = 0

VARIABLES queryTable, askedStatus, answered

queryVars == <<queryTable, askedStatus, answered>>

QueryIdle ==
  /\ queryTable = <<>>
  /\ askedStatus = <<>>
  /\ answered = <<>>

VARIABLES legacyDeliveries, legacyCustomers, legacyProducts, beforeFix, fixResult

migrateVars == <<legacyDeliveries, legacyCustomers, legacyProducts, beforeFix, fixResult>>

MigrateIdle ==
  /\ legacyDeliveries = <<>>
  /\ legacyCustomers = <<>>
  /\ legacyProducts = <<>>
  /\ beforeFix = <<>>
  /\ fixResult = <<>>

vars == <<statusVars, numberVars, recordVars, fetchVars, rankVars, formatVars, distanceVars, viewVars, storeVars, serviceVars, adminVars, geoVars, relationVars, heapVars, cardVars, listVars, gridVars, queryVars, migrateVars>>

(***************************************************************************)
(* Calls of normalizeStatus                                                *)
(***************************************************************************)

\* upper-case letters a caller adds to a word
MaxUpper == 2

\* white space characters a caller adds to a word
MaxAdded == 2

\* the white space a caller adds
AddedWhiteSpace == {" ", "\t"}

\* the words the code lists
KnownWords ==
  PendingKeys \cup OnWayKeys \cup DeliveredKeys \cup NoAnswerKeys \cup CancelledKeys

\* words the code does not list
UnknownWords ==
  {<<>>, <<"x", "y", "z", "-", "u", "n", "k", "n", "o", "w", "n">>,
   <<"d", "e", "l", "i", "v", "e", "r">>, <<"o", "n", "-", "w", "a", "y">>,
   <<"p", "e", "n", "d", " ", "i", "n", "g">>}

\* values that are not strings
NonStrings == {Undefined, Null, NumV(One), NumV(NaN), BoolV(TRUE), ObjV}

InitStatus ==
  /\ \/ /\ statusBase \in KnownWords \cup UnknownWords
        /\ statusValue = StrV(statusBase)
     \/ /\ statusBase = <<>>
        /\ statusValue \in NonStrings
  /\ statusResult = <<>>
  /\ statusCalls = 0
  /\ statusPrev = <<>>
  /\ NumberIdle /\ RecordIdle /\ FetchIdle /\ RankIdle /\ FormatIdle /\ DistanceIdle /\ ViewIdle /\ StoreIdle /\ ServiceIdle /\ AdminIdle /\ GeoIdle /\ RelationIdle /\ HeapIdle /\ CardIdle /\ ListIdle /\ GridIdle /\ QueryIdle /\ MigrateIdle

CountIn(s, set) == Cardinality({i \in 1..Len(s) : s[i] \in set})

UpperCaseSet == {UpperCaseLetters[i] : i \in 1..26}

LowerCaseSet == {LowerCaseLetters[i] : i \in 1..26}

\* the caller has not passed the value yet and may still change it
Editable == statusCalls = 0 /\ statusValue.t = "string"

\* the white space added so far
Added(s) == CountIn(s, WhiteSpace) - CountIn(statusBase, WhiteSpace \cup {"_"})
            + CountIn(s, {"_"})

UpperCaseAt(i) ==
  /\ Editable
  /\ i \in 1..Len(statusValue.s)
  /\ statusValue.s[i] \in LowerCaseSet
  /\ CountIn(statusValue.s, UpperCaseSet) < MaxUpper
  /\ statusValue' = StrV([statusValue.s EXCEPT ![i] = toUpperCaseChar(@)])
  /\ UNCHANGED <<statusBase, statusResult, statusCalls, statusPrev>>
  /\ UNCHANGED <<numberVars, recordVars, fetchVars, rankVars, formatVars, distanceVars, viewVars, storeVars, serviceVars, adminVars, geoVars, relationVars, heapVars, cardVars, listVars, gridVars, queryVars, migrateVars>>

PadStart(c) ==
  /\ Editable
  /\ Added(statusValue.s) < MaxAdded
  /\ statusValue' = StrV(<<c>> \o statusValue.s)
  /\ UNCHANGED <<statusBase, statusResult, statusCalls, statusPrev>>
  /\ UNCHANGED <<numberVars, recordVars, fetchVars, rankVars, formatVars, distanceVars, viewVars, storeVars, serviceVars, adminVars, geoVars, relationVars, heapVars, cardVars, listVars, gridVars, queryVars, migrateVars>>

PadEnd(c) ==
  /\ Editable
  /\ Added(statusValue.s) < MaxAdded
  /\ statusValue' = StrV(statusValue.s \o <<c>>)
  /\ UNCHANGED <<statusBase, statusResult, statusCalls, statusPrev>>
  /\ UNCHANGED <<numberVars, recordVars, fetchVars, rankVars, formatVars, distanceVars, viewVars, storeVars, serviceVars, adminVars, geoVars, relationVars, heapVars, cardVars, listVars, gridVars, queryVars, migrateVars>>

\* position i is inside the word: a character that is not white space stands
\* somewhere before it and somewhere after it
Inside(s, i) ==
  /\ \E j \in 1..(i - 1) : s[j] \notin WhiteSpace
  /\ \E j \in (i + 1)..Len(s) : s[j] \notin WhiteSpace

\* write the separator at position i as the white space character c
SeparatorAsWhiteSpace(i, c) ==
  /\ Editable
  /\ i \in 1..Len(statusValue.s)
  /\ statusValue.s[i] = "_"
  /\ Added(statusValue.s) < MaxAdded
  /\ statusValue' = StrV([statusValue.s EXCEPT ![i] = c])
  /\ UNCHANGED <<statusBase, statusResult, statusCalls, statusPrev>>
  /\ UNCHANGED <<numberVars, recordVars, fetchVars, rankVars, formatVars, distanceVars, viewVars, storeVars, serviceVars, adminVars, geoVars, relationVars, heapVars, cardVars, listVars, gridVars, queryVars, migrateVars>>

\* lengthen the white space separator at position i by the character c
WidenSeparator(i, c) ==
  /\ Editable
  /\ i \in 1..Len(statusValue.s)
  /\ statusValue.s[i] \in WhiteSpace
  /\ Inside(statusValue.s, i)
  /\ Added(statusValue.s) < MaxAdded
  /\ statusValue' = StrV(SubSeq(statusValue.s, 1, i) \o <<c>>
                         \o SubSeq(statusValue.s, i + 1, Len(statusValue.s)))
  /\ UNCHANGED <<statusBase, statusResult, statusCalls, statusPrev>>
  /\ UNCHANGED <<numberVars, recordVars, fetchVars, rankVars, formatVars, distanceVars, viewVars, storeVars, serviceVars, adminVars, geoVars, relationVars, heapVars, cardVars, listVars, gridVars, queryVars, migrateVars>>

\* this.normalizeStatus(value)
NormalizeStatus ==
  /\ statusCalls = 0
  /\ statusResult' = normalizeStatus(statusValue)
  /\ statusCalls' = 1
  /\ UNCHANGED <<statusBase, statusValue, statusPrev>>
  /\ UNCHANGED <<numberVars, recordVars, fetchVars, rankVars, formatVars, distanceVars, viewVars, storeVars, serviceVars, adminVars, geoVars, relationVars, heapVars, cardVars, listVars, gridVars, queryVars, migrateVars>>

\* this.normalizeStatus(result of the call before)
NormalizeStatusAgain ==
  /\ statusCalls \in {1, 2}
  /\ statusPrev' = statusResult
  /\ statusValue' = StrV(statusResult)
  /\ statusResult' = normalizeStatus(StrV(statusResult))
  /\ statusCalls' = 2
  /\ UNCHANGED statusBase
  /\ UNCHANGED <<numberVars, recordVars, fetchVars, rankVars, formatVars, distanceVars, viewVars, storeVars, serviceVars, adminVars, geoVars, relationVars, heapVars, cardVars, listVars, gridVars, queryVars, migrateVars>>

StatusNext ==
  \/ \E i \in 1..11 : UpperCaseAt(i)
  \/ \E c \in AddedWhiteSpace : PadStart(c)
  \/ \E c \in AddedWhiteSpace : PadEnd(c)
  \/ \E i \in 1..11, c \in AddedWhiteSpace : SeparatorAsWhiteSpace(i, c)
  \/ \E i \in 1..13, c \in AddedWhiteSpace : WidenSeparator(i, c)
  \/ NormalizeStatus
  \/ NormalizeStatusAgain

(***************************************************************************)
(* Calls of toNumber                                                       *)
(***************************************************************************)

\* the characters of a string passed to toNumber
MaxStrLen == 4

\* the characters a caller writes
NumberChars == {"4", "0", "7", ".", "-", "e", "a", " "}

\* the values a caller starts from
NumberSeeds ==
  {Undefined, Null, BoolV(TRUE), ObjV, NumV(Zero), NumV(Fin(407, -1)), NumV(Neg(One)),
   NumV(NaN), NumV(PosInfinity), NumV(NegInfinity),
   StrV(<<>>), StrV(S_Infinity), StrV(<<"-">> \o S_Infinity),
   StrV(<<"4", "e", "7", "7", "7">>), StrV(<<"1", "2", "a", "b", "c">>)}

\* the fallbacks a caller passes
Fallbacks == {Zero, Neg(One)}

InitNumber ==
  /\ numberValue \in NumberSeeds
  /\ numberFallback \in Fallbacks
  /\ numberResult = Zero
  /\ numberCalled = FALSE
  /\ StatusIdle /\ RecordIdle /\ FetchIdle /\ RankIdle /\ FormatIdle /\ DistanceIdle /\ ViewIdle /\ StoreIdle /\ ServiceIdle /\ AdminIdle /\ GeoIdle /\ RelationIdle /\ HeapIdle /\ CardIdle /\ ListIdle /\ GridIdle /\ QueryIdle /\ MigrateIdle

\* the caller writes one more character of the string
AppendChar(c) ==
  /\ ~numberCalled
  /\ numberValue.t = "string"
  /\ Len(numberValue.s) < MaxStrLen
  /\ numberValue' = StrV(numberValue.s \o <<c>>)
  /\ UNCHANGED <<numberFallback, numberResult, numberCalled>>
  /\ UNCHANGED <<statusVars, recordVars, fetchVars, rankVars, formatVars, distanceVars, viewVars, storeVars, serviceVars, adminVars, geoVars, relationVars, heapVars, cardVars, listVars, gridVars, queryVars, migrateVars>>

\* this.toNumber(value, fallback)
ToNumber ==
  /\ ~numberCalled
  /\ numberResult' = toNumber(numberValue, numberFallback)
  /\ numberCalled' = TRUE
  /\ UNCHANGED <<numberValue, numberFallback>>
  /\ UNCHANGED <<statusVars, recordVars, fetchVars, rankVars, formatVars, distanceVars, viewVars, storeVars, serviceVars, adminVars, geoVars, relationVars, heapVars, cardVars, listVars, gridVars, queryVars, migrateVars>>

NumberNext ==
  \/ \E c \in NumberChars : AppendChar(c)
  \/ ToNumber

(***************************************************************************)
(* Calls of mapFromConvex                                                  *)
(***************************************************************************)

\* properties a caller sets on a record
MaxAssigned == 2

\* the times of a call
Times == {Int2Num(5), Int2Num(1700)}

S_abc == <<"a", "b", "c">>

\* the values a record starts from
RecordSeeds == {Null, Undefined, NumV(Int2Num(5)), StrV(S_abc), BoolV(TRUE), ObjV}

\* the values a caller gives to property x
FieldValues(x) ==
  IF x \in {"latitude", "longitude"}
    THEN {NumV(Fin(407, -1)), NumV(Fin(-74, 0)), NumV(Zero), NumV(NaN), NumV(PosInfinity),
          NumV(NegInfinity), StrV(<<"4", "0", ".", "7">>), StrV(S_abc),
          StrV(<<"4", "e", "7", "7", "7">>), StrV(<<"1", "2", "a", "b", "c">>),
          StrV(<<>>), Null, BoolV(TRUE), ObjV}
  ELSE IF x = "orderValue" THEN {NumV(Int2Num(25)), StrV(<<"4", "0", ".", "7">>), StrV(S_abc), Null}
  ELSE IF x = "status"
    THEN {StrV(<<"i", "n", "_", "p", "r", "o", "g", "r", "e", "s", "s">>), StrV(Delivered),
          StrV(<<"x", "y", "z", "-", "u", "n", "k", "n", "o", "w", "n">>), Null}
  ELSE IF x = "priority"
    THEN {StrV(p) : p \in Priorities} \cup
         {StrV(<<"b", "o", "g", "u", "s">>),
          StrV(<<>>), NumV(One), Null}
  ELSE IF x = "_creationTime"
    THEN {NumV(Zero), NumV(Int2Num(1000)), NumV(Fin(15, -1)), NumV(NaN), NumV(PosInfinity),
          NumV(Fin(1, 16)), StrV(S_abc), StrV(IsoString(Int2Num(3))), BoolV(TRUE), ObjV, Null}
  ELSE IF x \in {"createdAt", "updatedAt"}
    THEN {StrV(IsoString(Int2Num(7))), StrV(<<>>), Null}
  ELSE IF x \in {"_id", "customerId"}
    THEN {StrV(<<"d", "1">>), StrV(<<>>), NumV(Int2Num(7)), NumV(Zero), Null}
  ELSE IF x \in {"driverId", "productId"} THEN {StrV(<<"d", "1">>), NumV(Zero), Null}
  ELSE IF x \in {"driver", "product", "customerRecord"} THEN {ObjV, Null}
  ELSE {StrV(S_abc), StrV(<<>>), Null}

InitRecord ==
  /\ rawRecord \in RecordSeeds
  /\ mapTime = Zero
  /\ mapResult = Threw("none")
  /\ mapCalled = FALSE
  /\ StatusIdle /\ NumberIdle /\ FetchIdle /\ RankIdle /\ FormatIdle /\ DistanceIdle /\ ViewIdle /\ StoreIdle /\ ServiceIdle /\ AdminIdle /\ GeoIdle /\ RelationIdle /\ HeapIdle /\ CardIdle /\ ListIdle /\ GridIdle /\ QueryIdle /\ MigrateIdle

\* how many properties of the record have a value
Assigned(record) == Cardinality({x \in Fields : record.f[x] # Undefined})

\* the caller sets property x of the record to v
SetField(x, v) ==
  /\ ~mapCalled
  /\ rawRecord.t = "object"
  /\ rawRecord.f[x] = Undefined
  /\ Assigned(rawRecord) < MaxAssigned
  /\ rawRecord' = Object([rawRecord.f EXCEPT ![x] = v])
  /\ UNCHANGED <<mapTime, mapResult, mapCalled>>
  /\ UNCHANGED <<statusVars, numberVars, fetchVars, rankVars, formatVars, distanceVars, viewVars, storeVars, serviceVars, adminVars, geoVars, relationVars, heapVars, cardVars, listVars, gridVars, queryVars, migrateVars>>

\* this.mapFromConvex(record) at the time time
MapFromConvex(time) ==
  /\ ~mapCalled
  /\ mapTime' = time
  /\ mapResult' = mapFromConvex(rawRecord, time)
  /\ mapCalled' = TRUE
  /\ UNCHANGED rawRecord
  /\ UNCHANGED <<statusVars, numberVars, fetchVars, rankVars, formatVars, distanceVars, viewVars, storeVars, serviceVars, adminVars, geoVars, relationVars, heapVars, cardVars, listVars, gridVars, queryVars, migrateVars>>

RecordNext ==
  \/ \E x \in Fields : \E v \in FieldValues(x) : SetField(x, v)
  \/ \E time \in Times : MapFromConvex(time)

(***************************************************************************)
(* Calls of getDeliveries                                                  *)
(***************************************************************************)

\* records in the answer of a query
MaxRecords == 2

\* a record with the properties in set, given by value
RecordOf(set, value) == Object([x \in Fields |-> IF x \in set THEN value[x] ELSE Undefined])

\* a record as the backend stores it
StoredRecord ==
  RecordOf({"_id", "_creationTime", "customerName", "latitude", "longitude", "status",
            "priority", "createdAt", "updatedAt"},
           [_id |-> StrV(<<"d", "1">>), _creationTime |-> NumV(Int2Num(1000)),
            customerName |-> StrV(S_abc), latitude |-> NumV(Fin(407, -1)),
            longitude |-> NumV(Fin(-74, 0)), status |-> StrV(Delivered),
            priority |-> StrV(<<"h", "i", "g", "h">>), createdAt |-> StrV(IsoString(Int2Num(7))),
            updatedAt |-> StrV(IsoString(Int2Num(9)))])

\* the records an answer may hold
RawRecords ==
  {StoredRecord, ObjV, Null, Undefined, NumV(Int2Num(5)),
   RecordOf({"latitude", "longitude", "status"},
            [latitude |-> StrV(<<"4", "0", ".", "7">>), longitude |-> StrV(S_abc),
             status |-> StrV(<<"i", "n", "_", "p", "r", "o", "g", "r", "e", "s", "s">>)]),
   RecordOf({"_id", "_creationTime"},
            [_id |-> StrV(<<"d", "1">>), _creationTime |-> NumV(Int2Num(1000))]),
   RecordOf({"_id", "_creationTime"},
            [_id |-> StrV(<<"d", "1">>), _creationTime |-> StrV(S_abc)])}

\* the answers without records
EmptyResponses ==
  {ArrayResponse(<<>>), ValueResponse(Null), ValueResponse(Undefined), ValueResponse(ObjV),
   ErrorResponse}

\* the status a caller asks for
StatusArguments == {Undefined, StrV(Pending), StrV(Delivered)}

\* the arguments of the query: status ? { status } : {}
QueryArgs(status) == IF Truthy(status) THEN [status |-> status] ELSE <<>>

InitFetch ==
  /\ response \in EmptyResponses
  /\ queryArgs = <<>>
  /\ fetchTime = Zero
  /\ fetched = <<>>
  /\ fetchCalled = FALSE
  /\ StatusIdle /\ NumberIdle /\ RecordIdle /\ RankIdle /\ FormatIdle /\ DistanceIdle /\ ViewIdle /\ StoreIdle /\ ServiceIdle /\ AdminIdle /\ GeoIdle /\ RelationIdle /\ HeapIdle /\ CardIdle /\ ListIdle /\ GridIdle /\ QueryIdle /\ MigrateIdle

\* the backend puts one more record into its answer
AddRecord(record) ==
  /\ ~fetchCalled
  /\ response.kind = "array"
  /\ Len(response.items) < MaxRecords
  /\ response' = ArrayResponse(Append(response.items, record))
  /\ UNCHANGED <<queryArgs, fetchTime, fetched, fetchCalled>>
  /\ UNCHANGED <<statusVars, numberVars, recordVars, rankVars, formatVars, distanceVars, viewVars, storeVars, serviceVars, adminVars, geoVars, relationVars, heapVars, cardVars, listVars, gridVars, queryVars, migrateVars>>

\* deliveryService.getDeliveries(status) at the time time
GetDeliveries(status, time) ==
  /\ ~fetchCalled
  /\ queryArgs' = QueryArgs(status)
  /\ fetchTime' = time
  /\ fetched' = getDeliveriesFrom(response, time)
  /\ fetchCalled' = TRUE
  /\ UNCHANGED response
  /\ UNCHANGED <<statusVars, numberVars, recordVars, rankVars, formatVars, distanceVars, viewVars, storeVars, serviceVars, adminVars, geoVars, relationVars, heapVars, cardVars, listVars, gridVars, queryVars, migrateVars>>

FetchNext ==
  \/ \E record \in RawRecords : AddRecord(record)
  \/ \E status \in StatusArguments : \E time \in Times : GetDeliveries(status, time)

(***************************************************************************)
(* Calls of sortDeliveriesByDistance                                       *)
(***************************************************************************)

\* deliveries in the list passed
MaxDeliveries == 4

\* the places of deliveries, in degrees
Places == {<<64, 0>>, <<41, 0>>, <<-64, 180>>}

\* the positions of the driver
DriverLocations == {DriverLocation(Int2Num(64), Zero), DriverLocation(Zero, Zero)}

\* the delivery number n at place: a stored record, normalised
DeliveryAt(n, place) ==
  mapFromConvex(
    RecordOf({"_id", "customerName", "latitude", "longitude", "status", "priority",
              "createdAt", "updatedAt"},
             [_id |-> StrV(<<"d">> \o IntDigits(n)), customerName |-> StrV(S_abc),
              latitude |-> NumV(Int2Num(place[1])), longitude |-> NumV(Int2Num(place[2])),
              status |-> StrV(Pending), priority |-> StrV(<<"m", "e", "d", "i", "u", "m">>),
              createdAt |-> StrV(IsoString(Int2Num(7))),
              updatedAt |-> StrV(IsoString(Int2Num(9)))]),
    Zero).value

InitRank ==
  /\ deliveries = <<>>
  /\ driverLocation \in DriverLocations
  /\ ranked = <<>>
  /\ rankCalled = FALSE
  /\ StatusIdle /\ NumberIdle /\ RecordIdle /\ FetchIdle /\ FormatIdle /\ DistanceIdle /\ ViewIdle /\ StoreIdle /\ ServiceIdle /\ AdminIdle /\ GeoIdle /\ RelationIdle /\ HeapIdle /\ CardIdle /\ ListIdle /\ GridIdle /\ QueryIdle /\ MigrateIdle

\* one more delivery is in the list
AddDelivery(place) ==
  /\ ~rankCalled
  /\ Len(deliveries) < MaxDeliveries
  /\ deliveries' = Append(deliveries, DeliveryAt(Len(deliveries) + 1, place))
  /\ UNCHANGED <<driverLocation, ranked, rankCalled>>
  /\ UNCHANGED <<statusVars, numberVars, recordVars, fetchVars, formatVars, distanceVars, viewVars, storeVars, serviceVars, adminVars, geoVars, relationVars, heapVars, cardVars, listVars, gridVars, queryVars, migrateVars>>

\* deliveryService.sortDeliveriesByDistance(deliveries, driverLocation)
SortDeliveriesByDistance ==
  /\ ~rankCalled
  /\ ranked' \in sortDeliveriesByDistance(deliveries, driverLocation)
  /\ rankCalled' = TRUE
  /\ UNCHANGED <<deliveries, driverLocation>>
  /\ UNCHANGED <<statusVars, numberVars, recordVars, fetchVars, formatVars, distanceVars, viewVars, storeVars, serviceVars, adminVars, geoVars, relationVars, heapVars, cardVars, listVars, gridVars, queryVars, migrateVars>>

RankNext ==
  \/ \E place \in Places : AddDelivery(place)
  \/ SortDeliveriesByDistance

(***************************************************************************)
(* Calls of formatDistance                                                 *)
(***************************************************************************)

\* digits of the distance a caller writes
MaxDigits == 4

\* the digits a caller writes
FormatDigits == {0, 1, 2, 3, 4, 5, 9}

\* the power of ten that scales the digits written
FormatExponents == {-7, -4, -3, -2, -1, 0, 18}

\* the distance written: formatMantissa * 10^formatExponent
formatArgument == Fin(formatMantissa, formatExponent)

InitFormat ==
  /\ formatMantissa = 0
  /\ formatExponent \in FormatExponents
  /\ formatResult = <<>>
  /\ formatCalled = FALSE
  /\ StatusIdle /\ NumberIdle /\ RecordIdle /\ FetchIdle /\ RankIdle /\ DistanceIdle /\ ViewIdle /\ StoreIdle /\ ServiceIdle /\ AdminIdle /\ GeoIdle /\ RelationIdle /\ HeapIdle /\ CardIdle /\ ListIdle /\ GridIdle /\ QueryIdle /\ MigrateIdle

\* the caller writes one more digit of the distance
AppendDigit(d) ==
  /\ ~formatCalled
  /\ formatMantissa < Pow10(MaxDigits - 1)
  /\ formatMantissa' = 10 * formatMantissa + d
  /\ UNCHANGED <<formatExponent, formatResult, formatCalled>>
  /\ UNCHANGED <<statusVars, numberVars, recordVars, fetchVars, rankVars, distanceVars, viewVars, storeVars, serviceVars, adminVars, geoVars, relationVars, heapVars, cardVars, listVars, gridVars, queryVars, migrateVars>>

\* this.formatDistance(distance)
FormatDistance ==
  /\ ~formatCalled
  /\ formatResult' = formatDistance(formatArgument)
  /\ formatCalled' = TRUE
  /\ UNCHANGED <<formatMantissa, formatExponent>>
  /\ UNCHANGED <<statusVars, numberVars, recordVars, fetchVars, rankVars, distanceVars, viewVars, storeVars, serviceVars, adminVars, geoVars, relationVars, heapVars, cardVars, listVars, gridVars, queryVars, migrateVars>>

FormatNext ==
  \/ \E d \in FormatDigits : AppendDigit(d)
  \/ FormatDistance

(***************************************************************************)
(* Calls of calculateDistance                                              *)
(***************************************************************************)

\* the latitudes and longitudes of the points, in degrees
Latitudes == {-64, 0, 41, 64, 90}

Longitudes == {-74, 0, 180}

InitDistance ==
  /\ fromPoint = <<0, 0>>
  /\ toPoint = <<0, 0>>
  /\ distanceThere = Zero
  /\ distanceBack = Zero
  /\ distanceSelf = Zero
  /\ distanceCalled = FALSE
  /\ StatusIdle /\ NumberIdle /\ RecordIdle /\ FetchIdle /\ RankIdle /\ FormatIdle /\ ViewIdle /\ StoreIdle /\ ServiceIdle /\ AdminIdle /\ GeoIdle /\ RelationIdle /\ HeapIdle /\ CardIdle /\ ListIdle /\ GridIdle /\ QueryIdle /\ MigrateIdle

\* the caller takes (lat, lon) as the first point
ChooseFrom(lat, lon) ==
  /\ ~distanceCalled
  /\ fromPoint' = <<lat, lon>>
  /\ UNCHANGED <<toPoint, distanceThere, distanceBack, distanceSelf, distanceCalled>>
  /\ UNCHANGED <<statusVars, numberVars, recordVars, fetchVars, rankVars, formatVars, viewVars, storeVars, serviceVars, adminVars, geoVars, relationVars, heapVars, cardVars, listVars, gridVars, queryVars, migrateVars>>

\* the caller takes (lat, lon) as the second point
ChooseTo(lat, lon) ==
  /\ ~distanceCalled
  /\ toPoint' = <<lat, lon>>
  /\ UNCHANGED <<fromPoint, distanceThere, distanceBack, distanceSelf, distanceCalled>>
  /\ UNCHANGED <<statusVars, numberVars, recordVars, fetchVars, rankVars, formatVars, viewVars, storeVars, serviceVars, adminVars, geoVars, relationVars, heapVars, cardVars, listVars, gridVars, queryVars, migrateVars>>

\* calculateDistance from the point a to the point b
DistanceBetween(a, b) ==
  calculateDistance(Int2Num(a[1]), Int2Num(a[2]), Int2Num(b[1]), Int2Num(b[2]))

\* the calls calculateDistance(from, to), calculateDistance(to, from) and
\* calculateDistance(from, from)
CalculateDistance ==
  /\ ~distanceCalled
  /\ distanceThere' = DistanceBetween(fromPoint, toPoint)
  /\ distanceBack' = DistanceBetween(toPoint, fromPoint)
  /\ distanceSelf' = DistanceBetween(fromPoint, fromPoint)
  /\ distanceCalled' = TRUE
  /\ UNCHANGED <<fromPoint, toPoint>>
  /\ UNCHANGED <<statusVars, numberVars, recordVars, fetchVars, rankVars, formatVars, viewVars, storeVars, serviceVars, adminVars, geoVars, relationVars, heapVars, cardVars, listVars, gridVars, queryVars, migrateVars>>

DistanceNext ==
  \/ \E lat \in Latitudes, lon \in Longitudes : ChooseFrom(lat, lon)
  \/ \E lat \in Latitudes, lon \in Longitudes : ChooseTo(lat, lon)
  \/ CalculateDistance

(***************************************************************************)
(* The driver view: DeliveryList.loadDeliveries                            *)
(***************************************************************************)

\* deliveries the backend answers with
MaxShown == 3

\* the places of the deliveries of the view: unknown (0, 0), a place on the
\* equator, a place with both coordinates set, and the antipode of a driver
ViewPlaces == {<<0, 0>>, <<0, -74>>, <<41, -74>>, <<-64, 180>>}

\* the drivers deliveries are assigned to
S_d1 == <<"d", "1">>

S_d2 == <<"d", "2">>

\* !x of a number
FalsyNumber(x) == IsNaN(x) \/ x = Zero

\* the test of the validation for coordinates that are 0 or missing
InvalidCoordinates(delivery) ==
  \/ FalsyNumber(delivery.latitude.n)
  \/ FalsyNumber(delivery.longitude.n)
  \/ (delivery.latitude.n = Zero /\ delivery.longitude.n = Zero)

S_LocationUnknown ==
  <<"L", "o", "c", "a", "t", "i", "o", "n", " ", "u", "n", "k", "n", "o", "w", "n">>

\* { ...delivery, distance: 0, distanceText: 'Location unknown' }
locationUnknown(delivery) ==
  [x \in DOMAIN delivery \cup {"distance", "distanceText"} |->
     IF x = "distance" THEN NumV(Zero)
     ELSE IF x = "distanceText" THEN StrV(S_LocationUnknown)
     ELSE delivery[x]]

\* the map of the validation over the sorted deliveries
deliveriesWithValidation(sortedDeliveries) ==
  [i \in 1..Len(sortedDeliveries) |->
     IF InvalidCoordinates(sortedDeliveries[i]) THEN locationUnknown(sortedDeliveries[i])
     ELSE sortedDeliveries[i]]

\* the deliveries of the driver when the view is a driver's
filterByDriver(deliveriesData, driverId) ==
  IF Truthy(driverId)
    THEN SelectSeq(deliveriesData, LAMBDA delivery : delivery.driverId = driverId)
    ELSE deliveriesData

\* the lists loadDeliveries may pass to setDeliveries
loadDeliveries(deliveriesData, driverId, known, location) ==
  IF known
    THEN {deliveriesWithValidation(sortedDeliveries) :
            sortedDeliveries \in sortDeliveriesByDistance(filterByDriver(deliveriesData, driverId),
                                                          location)}
    ELSE {[i \in 1..Len(filterByDriver(deliveriesData, driverId)) |->
             locationUnknown(filterByDriver(deliveriesData, driverId)[i])]}

InitView ==
  /\ deliveries = <<>>
  /\ driverLocation \in DriverLocations
  /\ ranked = <<>>
  /\ rankCalled = FALSE
  /\ viewDriverId \in {Undefined, StrV(S_d1)}
  /\ locationKnown \in BOOLEAN
  /\ shown = <<>>
  /\ loadCalled = FALSE
  /\ StatusIdle /\ NumberIdle /\ RecordIdle /\ FetchIdle /\ FormatIdle /\ DistanceIdle /\ StoreIdle /\ ServiceIdle /\ AdminIdle /\ GeoIdle /\ RelationIdle /\ HeapIdle /\ CardIdle /\ ListIdle /\ GridIdle /\ QueryIdle /\ MigrateIdle

\* the backend holds one more delivery, at place, of the driver d1 or d2 in
\* turn
StoreDelivery(place) ==
  /\ ~loadCalled
  /\ Len(deliveries) < MaxShown
  /\ deliveries' =
       Append(deliveries,
              [DeliveryAt(Len(deliveries) + 1, place) EXCEPT
                 !.driverId = StrV(IF Len(deliveries) % 2 = 0 THEN S_d1 ELSE S_d2)])
  /\ UNCHANGED <<driverLocation, ranked, rankCalled>>
  /\ UNCHANGED viewVars
  /\ UNCHANGED <<statusVars, numberVars, recordVars, fetchVars, formatVars, distanceVars, storeVars, serviceVars, adminVars, geoVars, relationVars, heapVars, cardVars, listVars, gridVars, queryVars, migrateVars>>

\* loadDeliveries() once getDeliveries has answered with deliveries
LoadDeliveries ==
  /\ ~loadCalled
  /\ shown' \in loadDeliveries(deliveries, viewDriverId, locationKnown, driverLocation)
  /\ loadCalled' = TRUE
  /\ UNCHANGED <<viewDriverId, locationKnown>>
  /\ UNCHANGED <<statusVars, numberVars, recordVars, fetchVars, rankVars, formatVars, distanceVars, storeVars, serviceVars, adminVars, geoVars, relationVars, heapVars, cardVars, listVars, gridVars, queryVars, migrateVars>>

ViewNext ==
  \/ \E place \in ViewPlaces : StoreDelivery(place)
  \/ LoadDeliveries

(***************************************************************************)
(* The backend: the deliveries table and the mutations that write a status *)
(***************************************************************************)

\* mutations made
MaxMutations == 3

\* statusEnum of the schema, which every stored delivery satisfies
schemaStatusEnum == {Pending, OnWay, Delivered}

\* statusEnum of deliveries.ts, the validator of the arguments of updateStatus
deliveriesStatusEnum == {Pending, OnWay, Delivered, NoAnswer, Cancelled}

\* the validator of the status argument of admin.updateOrder
updateOrderStatusEnum == {Pending, OnWay, Delivered}

\* v is a string among the literals of a union
IsLiteralOf(v, literals) == v.t = "string" /\ v.s \in literals

\* ids of the deliveries table: k1 has a document, k2 has none
DeliveryIds == {"k1", "k2"}

\* ids of the products table with a document, and the price of each
ProductIds == {"p1"}

ProductPrice == 25

\* a slot of the table without a document
NoDocument == [t |-> "null"]

\* the properties of a stored delivery that the mutations write
DocumentFields ==
  {"status", "priority", "notes", "driverId", "productId", "orderValue", "latitude",
   "longitude", "updatedAt"}

\* the document satisfies the deliveries table of the schema
SatisfiesSchema(doc) ==
  /\ IsLiteralOf(doc.status, schemaStatusEnum)
  /\ IsLiteralOf(doc.priority, Priorities)
  /\ doc.notes.t \in {"undefined", "string"}
  /\ doc.driverId.t \in {"undefined", "string"}
  /\ doc.productId.t \in {"undefined", "string"}
  /\ doc.orderValue.t \in {"undefined", "number"}
  /\ doc.latitude.t = "number"
  /\ doc.longitude.t = "number"
  /\ doc.updatedAt.t = "string"

\* a mutation that ended: its result and the table it leaves (the table it
\* found when it threw)
Committed(table) == [result |-> Returned(BoolV(TRUE)), table |-> table]

RolledBack(table, error) == [result |-> Threw(error), table |-> table]

\* ctx.db.patch(id, value): the properties of value in set replace those of the
\* document, a property set to undefined is removed, and the document written
\* must satisfy the schema
dbPatch(table, id, set, value) ==
  IF id \notin DeliveryIds \/ table[id] = NoDocument THEN RolledBack(table, "Error")
  ELSE IF ~SatisfiesSchema([x \in DocumentFields |-> IF x \in set THEN value[x] ELSE table[id][x]])
    THEN RolledBack(table, "SchemaValidationError")
  ELSE Committed([table EXCEPT ![id] =
                    [x \in DocumentFields |-> IF x \in set THEN value[x] ELSE table[id][x]]])

\* deliveries.updateStatus({_id, status}) at the time time
updateStatus(table, id, status, time) ==
  IF ~IsLiteralOf(status, deliveriesStatusEnum) THEN RolledBack(table, "ArgumentValidationError")
  ELSE IF id \notin DeliveryIds THEN RolledBack(table, "Error")
  ELSE IF table[id] = NoDocument THEN RolledBack(table, "Error")
  ELSE dbPatch(table, id, {"status", "updatedAt"},
               [status |-> status, updatedAt |-> StrV(IsoString(Int2Num(time)))])

\* the arguments of admin.updateOrder satisfy its validators
ValidOrderArguments(args) ==
  /\ args.id \in DeliveryIds
  /\ IsLiteralOf(args.status, updateOrderStatusEnum)
  /\ IsLiteralOf(args.priority, Priorities)
  /\ args.notes.t \in {"undefined", "string"}
  /\ args.productId.t \in {"undefined", "string"}
  /\ args.driverId.t \in {"undefined", "string"}
  /\ args.latitude.t \in {"undefined", "number"}
  /\ args.longitude.t \in {"undefined", "number"}

\* the properties updateData holds
updateDataFields(args) ==
  {"status", "priority", "notes", "driverId", "updatedAt"}
    \cup (IF args.latitude # Undefined THEN {"latitude"} ELSE {})
    \cup (IF args.longitude # Undefined THEN {"longitude"} ELSE {})
    \cup (IF Truthy(args.productId) THEN {"productId", "orderValue"} ELSE {})

\* admin.updateOrder(args) at the time time
updateOrder(table, args, time) ==
  IF ~ValidOrderArguments(args) THEN RolledBack(table, "ArgumentValidationError")
  ELSE IF Truthy(args.productId) /\ args.productId.s \notin ProductIds
    THEN RolledBack(table, "Error")
  ELSE dbPatch(table, args.id, updateDataFields(args),
               [status |-> args.status, priority |-> args.priority, notes |-> args.notes,
                driverId |-> args.driverId, updatedAt |-> StrV(IsoString(Int2Num(time))),
                latitude |-> args.latitude, longitude |-> args.longitude,
                productId |-> args.productId, orderValue |-> NumV(Int2Num(ProductPrice))])

\* the statuses a caller asks for: the five of the front end and another word
StatusWritten == {StrV(s) : s \in Statuses} \cup {StrV(<<"b", "o", "g", "u", "s">>)}

\* the ids a caller gives: with a document, without one, and not an id
IdsGiven == {"k1", "k2", "zz"}

\* the arguments of updateOrder next to id and status
OrderDetails ==
  LET plain == [priority |-> StrV(<<"m", "e", "d", "i", "u", "m">>), notes |-> Undefined,
                productId |-> Undefined, driverId |-> Undefined, latitude |-> Undefined,
                longitude |-> Undefined]
  IN  {plain,
       [plain EXCEPT !.priority = StrV(<<"b", "o", "g", "u", "s">>)],
       [plain EXCEPT !.priority = StrV(<<"u", "r", "g", "e", "n", "t">>), !.notes = StrV(S_abc)],
       [plain EXCEPT !.productId = StrV(<<"p", "1">>)],
       [plain EXCEPT !.productId = StrV(<<"p", "9">>)],
       [plain EXCEPT !.driverId = StrV(S_d1), !.latitude = NumV(Int2Num(41)),
                     !.longitude = NumV(Int2Num(-74))]}

\* the delivery k1 as stored at the start
StoredDelivery(status) ==
  [status |-> StrV(status), priority |-> StrV(<<"h", "i", "g", "h">>), notes |-> Undefined,
   driverId |-> Undefined, productId |-> Undefined, orderValue |-> Undefined,
   latitude |-> NumV(Fin(407, -1)), longitude |-> NumV(Fin(-74, 0)),
   updatedAt |-> StrV(IsoString(Zero))]

InitStore ==
  /\ \E status \in schemaStatusEnum :
       deliveriesTable = [id \in DeliveryIds |->
                            IF id = "k1" THEN StoredDelivery(status) ELSE NoDocument]
  /\ clock = 0
  /\ lastMutation = <<>>
  /\ StatusIdle /\ NumberIdle /\ RecordIdle /\ FetchIdle /\ RankIdle /\ FormatIdle /\ DistanceIdle /\ ViewIdle /\ ServiceIdle /\ AdminIdle /\ GeoIdle /\ RelationIdle /\ HeapIdle /\ CardIdle /\ ListIdle /\ GridIdle /\ QueryIdle /\ MigrateIdle

\* what is kept of a mutation: its name, the id and status asked for, its
\* other arguments, whether the id had a document, and the result
Mutation(name, id, status, details, table, outcome) ==
  [name |-> name, id |-> id, status |-> status, details |-> details,
   existed |-> (id \in DeliveryIds /\ table[id] # NoDocument), result |-> outcome.result]

\* a client calls deliveries.updateStatus
UpdateStatus(id, status) ==
  /\ clock < MaxMutations
  /\ clock' = clock + 1
  /\ deliveriesTable' = updateStatus(deliveriesTable, id, status, clock + 1).table
  /\ lastMutation' = Mutation("updateStatus", id, status, <<>>, deliveriesTable,
                              updateStatus(deliveriesTable, id, status, clock + 1))
  /\ UNCHANGED <<statusVars, numberVars, recordVars, fetchVars, rankVars, formatVars, distanceVars, viewVars, serviceVars, adminVars, geoVars, relationVars, heapVars, cardVars, listVars, gridVars, queryVars, migrateVars>>

\* a client calls admin.updateOrder
UpdateOrder(id, status, details) ==
  /\ clock < MaxMutations
  /\ clock' = clock + 1
  /\ deliveriesTable' =
       updateOrder(deliveriesTable, [id |-> id, status |-> status] @@ details, clock + 1).table
  /\ lastMutation' =
       Mutation("updateOrder", id, status, details, deliveriesTable,
                updateOrder(deliveriesTable, [id |-> id, status |-> status] @@ details, clock + 1))
  /\ UNCHANGED <<statusVars, numberVars, recordVars, fetchVars, rankVars, formatVars, distanceVars, viewVars, serviceVars, adminVars, geoVars, relationVars, heapVars, cardVars, listVars, gridVars, queryVars, migrateVars>>

StoreNext ==
  \/ \E id \in IdsGiven, status \in StatusWritten : UpdateStatus(id, status)
  \/ \E id \in IdsGiven, status \in StatusWritten, details \in OrderDetails :
       UpdateOrder(id, status, details)

(***************************************************************************)
(* The delivery service over its persistence collaborator                  *)
(***************************************************************************)

\* try { body } catch (error) { return fallback } (mutant: without the catch)
TryWithoutCatch(body, fallback) == body

TryCatch(body, fallback) == IF body.threw THEN Returned(fallback) ELSE body

\* the error of the first record of items that mapFromConvex throws on
RECURSIVE FirstError(_, _, _)
FirstError(items, now, i) ==
  IF mapFromConvex(items[i], now).threw THEN mapFromConvex(items[i], now).error
  ELSE FirstError(items, now, i + 1)

\* the try block of getDeliveries, given the answer of client.query
getDeliveriesBody(answer, now) ==
  IF answer.kind = "error" THEN Threw("Error")
  ELSE IF answer.kind # "array" THEN Returned(<<>>)
  ELSE IF \E i \in 1..Len(answer.items) : mapFromConvex(answer.items[i], now).threw
    THEN Threw(FirstError(answer.items, now, 1))
  ELSE Returned([i \in 1..Len(answer.items) |-> mapFromConvex(answer.items[i], now).value])

\* deliveryService.getDeliveries(status)
getDeliveries(answer, now) == TryCatch(getDeliveriesBody(answer, now), <<>>)

\* the try block of updateDeliveryStatus and of updateDeliveryTime, given the
\* result of client.mutation
updateBody(mutationResult) == IF mutationResult.threw THEN mutationResult ELSE Returned(BoolV(TRUE))

\* deliveryService.updateDeliveryStatus(deliveryId, status)
updateDeliveryStatus(mutationResult) == TryCatch(updateBody(mutationResult), BoolV(FALSE))

\* deliveryService.updateDeliveryTime(deliveryId, deliveryTime)
updateDeliveryTime(mutationResult) == TryCatch(updateBody(mutationResult), BoolV(FALSE))

\* deliveries.updateDeliveryTime({_id, deliveryTime}): the deliveries table of
\* the schema has no deliveryTime, so the document patched fails its validation
updateDeliveryTimeMutation(table, id, deliveryTime, time) ==
  IF deliveryTime.t # "string" THEN RolledBack(table, "ArgumentValidationError")
  ELSE IF id \notin DeliveryIds THEN RolledBack(table, "Error")
  ELSE IF table[id] = NoDocument THEN RolledBack(table, "Error")
  ELSE RolledBack(table, "SchemaValidationError")

\* the mutation does not reach the backend
Unreachable(table) == RolledBack(table, "NetworkError")

\* the answers of client.query(api.deliveries.list)
Answers ==
  {ArrayResponse(<<>>), ArrayResponse(<<StoredRecord>>), ArrayResponse(<<StoredRecord, Null>>),
   ArrayResponse(<<RecordOf({"_creationTime"}, [_creationTime |-> StrV(S_abc)])>>),
   ValueResponse(Null), ValueResponse(Undefined), ValueResponse(ObjV), ValueResponse(StrV(S_abc)),
   ValueResponse(NumV(Zero)), ErrorResponse}

\* the delivery times a driver chooses
DeliveryTimes == {StrV(<<"t", "o", "d", "a", "y">>), StrV(<<"2", "-", "d", "a", "y", "s">>)}

InitService ==
  /\ \E status \in schemaStatusEnum :
       deliveriesTable = [id \in DeliveryIds |->
                            IF id = "k1" THEN StoredDelivery(status) ELSE NoDocument]
  /\ clock = 0
  /\ lastMutation = <<>>
  /\ serviceCall = <<>>
  /\ serviceOutcome = Threw("none")
  /\ StatusIdle /\ NumberIdle /\ RecordIdle /\ FetchIdle /\ RankIdle /\ FormatIdle /\ DistanceIdle /\ ViewIdle /\ AdminIdle /\ GeoIdle /\ RelationIdle /\ HeapIdle /\ CardIdle /\ ListIdle /\ GridIdle /\ QueryIdle /\ MigrateIdle

\* what is kept of a call of the service: its name and what came back from the
\* collaborator
ServiceCall(name, collaborator) == [name |-> name, collaborator |-> collaborator]

\* a caller awaits deliveryService.getDeliveries(); the query answers answer
ServiceGetDeliveries(answer) ==
  /\ clock < MaxMutations
  /\ clock' = clock + 1
  /\ serviceCall' = ServiceCall("getDeliveries", answer)
  /\ serviceOutcome' = getDeliveries(answer, Int2Num(clock + 1))
  /\ UNCHANGED <<deliveriesTable, lastMutation>>
  /\ UNCHANGED <<statusVars, numberVars, recordVars, fetchVars, rankVars, formatVars, distanceVars, viewVars, adminVars, geoVars, relationVars, heapVars, cardVars, listVars, gridVars, queryVars, migrateVars>>

\* the mutation updateStatus as the client sees it
StatusMutation(id, status, reachable) ==
  IF reachable THEN updateStatus(deliveriesTable, id, status, clock + 1)
  ELSE Unreachable(deliveriesTable)

\* a caller awaits deliveryService.updateDeliveryStatus(id, status)
ServiceUpdateStatus(id, status, reachable) ==
  /\ clock < MaxMutations
  /\ clock' = clock + 1
  /\ deliveriesTable' = StatusMutation(id, status, reachable).table
  /\ lastMutation' = Mutation("updateStatus", id, status, <<>>, deliveriesTable,
                              StatusMutation(id, status, reachable))
  /\ serviceCall' = ServiceCall("updateDeliveryStatus", StatusMutation(id, status, reachable).result)
  /\ serviceOutcome' = updateDeliveryStatus(StatusMutation(id, status, reachable).result)
  /\ UNCHANGED <<statusVars, numberVars, recordVars, fetchVars, rankVars, formatVars, distanceVars, viewVars, adminVars, geoVars, relationVars, heapVars, cardVars, listVars, gridVars, queryVars, migrateVars>>

\* the mutation updateDeliveryTime as the client sees it
TimeMutation(id, deliveryTime, reachable) ==
  IF reachable THEN updateDeliveryTimeMutation(deliveriesTable, id, deliveryTime, clock + 1)
  ELSE Unreachable(deliveriesTable)

\* a caller awaits deliveryService.updateDeliveryTime(id, deliveryTime)
ServiceUpdateTime(id, deliveryTime, reachable) ==
  /\ clock < MaxMutations
  /\ clock' = clock + 1
  /\ deliveriesTable' = TimeMutation(id, deliveryTime, reachable).table
  /\ lastMutation' = Mutation("updateDeliveryTime", id, deliveryTime, <<>>, deliveriesTable,
                              TimeMutation(id, deliveryTime, reachable))
  /\ serviceCall' = ServiceCall("updateDeliveryTime", TimeMutation(id, deliveryTime, reachable).result)
  /\ serviceOutcome' = updateDeliveryTime(TimeMutation(id, deliveryTime, reachable).result)
  /\ UNCHANGED <<statusVars, numberVars, recordVars, fetchVars, rankVars, formatVars, distanceVars, viewVars, adminVars, geoVars, relationVars, heapVars, cardVars, listVars, gridVars, queryVars, migrateVars>>

ServiceNext ==
  \/ \E answer \in Answers : ServiceGetDeliveries(answer)
  \/ \E id \in IdsGiven, status \in StatusWritten, reachable \in BOOLEAN :
       ServiceUpdateStatus(id, status, reachable)
  \/ \E id \in IdsGiven, deliveryTime \in DeliveryTimes, reachable \in BOOLEAN :
       ServiceUpdateTime(id, deliveryTime, reachable)

(***************************************************************************)
(* The admin service and the mutations of admin.ts                         *)
(***************************************************************************)

\* calls of the admin service
MaxAdminCalls == 3

\* the create, update and delete methods of AdminService
AdminMethods ==
  {"createCustomer", "updateCustomer", "deleteCustomer", "assignCustomerToDriver",
   "createProduct", "updateProduct", "createDriver", "updateDriver", "updateOrder",
   "createOrder", "deleteOrder", "assignDriverToOrder"}

\* the id of the document inserted by the call number n
NewId(n) == <<"i">> \o IntDigits(n)

\* an id with no document in any table
MissingId == <<"z", "z">>

\* the table name gains the document id
Inserted(tables, name, id) ==
  [result |-> Returned(StrV(id)), table |-> [tables EXCEPT ![name] = @ \cup {id}]]

\* a mutation of admin.ts called with args as call number n: its result and
\* the tables it leaves. args.valid says that the arguments satisfy the
\* validators of the mutation; an id argument does when it is the id of a
\* document of its table or of one deleted from it.
adminMutation(method, tables, args, n) ==
  IF method = "deleteOrder" THEN RolledBack(tables, "FunctionNotFound")
  ELSE IF ~args.valid THEN RolledBack(tables, "ArgumentValidationError")
  ELSE IF method = "createCustomer" THEN Inserted(tables, "customers", NewId(n))
  ELSE IF method = "createProduct" THEN Inserted(tables, "products", NewId(n))
  ELSE IF method = "createDriver" THEN RolledBack(tables, "SchemaValidationError")
  ELSE IF method = "updateCustomer"
    THEN (IF args.id \in tables.customers THEN Committed(tables) ELSE RolledBack(tables, "Error"))
  ELSE IF method = "updateProduct"
    THEN (IF args.id \in tables.products THEN Committed(tables) ELSE RolledBack(tables, "Error"))
  ELSE IF method = "updateDriver"
    THEN (IF args.id \in tables.drivers
            THEN RolledBack(tables, "SchemaValidationError")
            ELSE RolledBack(tables, "Error"))
  ELSE IF method = "deleteCustomer"
    THEN (IF args.id \in tables.customers
            THEN Committed([tables EXCEPT !.customers = @ \ {args.id}])
            ELSE RolledBack(tables, "Error"))
  ELSE IF method = "assignCustomerToDriver"
    THEN (IF /\ args.customerId \in tables.customers
             /\ args.driverId \in tables.drivers
             /\ args.productId \in tables.products
            THEN Inserted(tables, "deliveries", NewId(n))
            ELSE RolledBack(tables, "Error"))
  ELSE IF method = "createOrder"
    THEN (IF args.customerId \in tables.customers /\ args.productId \in tables.products
            THEN Inserted(tables, "deliveries", NewId(n))
            ELSE RolledBack(tables, "Error"))
  ELSE IF method = "updateOrder"
    THEN (IF /\ args.id \in tables.deliveries
             /\ args.productId = <<>> \/ args.productId \in tables.products
            THEN Committed(tables)
            ELSE RolledBack(tables, "Error"))
  ELSE (IF args.id \in tables.deliveries /\ args.driverId \in tables.drivers
          THEN Committed(tables)
          ELSE RolledBack(tables, "Error"))

\* the try block of a method of AdminService, given the result of
\* client.mutation: createCustomer and createProduct return the id that the
\* mutation returned, every other method returns true
adminBody(method, mutationResult) ==
  IF mutationResult.threw THEN mutationResult
  ELSE IF method \in {"createCustomer", "createProduct"} THEN mutationResult
  ELSE Returned(BoolV(TRUE))

\* a method of AdminService: createCustomer and createProduct return null from
\* their catch, every other method returns false
adminService(method, mutationResult) ==
  TryCatch(adminBody(method, mutationResult),
           IF method \in {"createCustomer", "createProduct"} THEN Null ELSE BoolV(FALSE))

\* the ids a caller may give for the documents of a table
IdsFor(table) == table \cup {MissingId}

\* the arguments a caller gives to a method
AdminArguments(method, tables) ==
  {[id |-> id, customerId |-> customerId, productId |-> productId, driverId |-> driverId,
    valid |-> valid] :
     id \in (IF method \in {"updateCustomer", "deleteCustomer"} THEN IdsFor(tables.customers)
             ELSE IF method = "updateProduct" THEN IdsFor(tables.products)
             ELSE IF method = "updateDriver" THEN IdsFor(tables.drivers)
             ELSE IF method \in {"updateOrder", "deleteOrder", "assignDriverToOrder"}
               THEN IdsFor(tables.deliveries)
             ELSE {<<>>}),
     customerId \in (IF method \in {"assignCustomerToDriver", "createOrder"}
                       THEN IdsFor(tables.customers) ELSE {<<>>}),
     productId \in (IF method \in {"assignCustomerToDriver", "createOrder"}
                      THEN IdsFor(tables.products)
                    ELSE IF method = "updateOrder" THEN IdsFor(tables.products) \cup {<<>>}
                    ELSE {<<>>}),
     driverId \in (IF method \in {"assignCustomerToDriver", "assignDriverToOrder"}
                     THEN IdsFor(tables.drivers) ELSE {<<>>}),
     valid \in BOOLEAN}

\* the tables at the start: one customer, one product, one driver, one delivery
InitAdmin ==
  /\ adminTables = [customers |-> {<<"c", "0">>}, products |-> {<<"p", "0">>},
                    drivers |-> {<<"d", "0">>}, deliveries |-> {<<"o", "0">>}]
  /\ adminCalls = 0
  /\ adminCall = <<>>
  /\ adminOutcome = Threw("none")
  /\ StatusIdle /\ NumberIdle /\ RecordIdle /\ FetchIdle /\ RankIdle /\ FormatIdle /\ DistanceIdle /\ ViewIdle /\ StoreIdle /\ ServiceIdle /\ GeoIdle /\ RelationIdle /\ HeapIdle /\ CardIdle /\ ListIdle /\ GridIdle /\ QueryIdle /\ MigrateIdle

\* the mutation of a method as the client sees it
AdminMutationSeen(method, args, reachable) ==
  IF reachable THEN adminMutation(method, adminTables, args, adminCalls + 1)
  ELSE Unreachable(adminTables)

\* a caller awaits adminService[method](args)
AdminCall(method, args, reachable) ==
  /\ adminCalls < MaxAdminCalls
  /\ adminCalls' = adminCalls + 1
  /\ adminTables' = AdminMutationSeen(method, args, reachable).table
  /\ adminCall' = ServiceCall(method, AdminMutationSeen(method, args, reachable).result)
  /\ adminOutcome' = adminService(method, AdminMutationSeen(method, args, reachable).result)
  /\ UNCHANGED <<statusVars, numberVars, recordVars, fetchVars, rankVars, formatVars, distanceVars, viewVars, storeVars, serviceVars, geoVars, relationVars, heapVars, cardVars, listVars, gridVars, queryVars, migrateVars>>

AdminNext ==
  \E method \in AdminMethods : \E args \in AdminArguments(method, adminTables) :
    \E reachable \in BOOLEAN : AdminCall(method, args, reachable)

(***************************************************************************)
(* getCurrentLocation over navigator.geolocation                           *)
(***************************************************************************)

\* a promise that is not settled, fulfilled with value, rejected with error
Unsettled == [state |-> "pending"]

Fulfilled(value) == [state |-> "fulfilled", value |-> value]

Rejected(error) == [state |-> "rejected", error |-> error]

\* resolve(value) and reject(error) of the promise: only a pending promise
\* settles
resolve(promise, value) == IF promise = Unsettled THEN Fulfilled(value) ELSE promise

reject(promise, error) == IF promise = Unsettled THEN Rejected(error) ELSE promise

\* the object the success callback resolves with
locationOf(position) ==
  [latitude |-> position.coords.latitude, longitude |-> position.coords.longitude,
   accuracy |-> position.coords.accuracy, timestamp |-> position.timestamp]

\* the success callback (position) => resolve({...})
positionCallback(promise, position) == resolve(promise, locationOf(position))

\* the error callback (error) => resolve(null) (mutant: it rejects)
errorCallbackRejects(promise, error) == reject(promise, error)

errorCallback(promise, error) == resolve(promise, Null)

\* the positions the device reports
Positions ==
  {[coords |-> [latitude |-> Int2Num(lat), longitude |-> Int2Num(lon), accuracy |-> Int2Num(acc)],
    timestamp |-> Int2Num(time)] :
     lat \in Latitudes, lon \in Longitudes, acc \in {5, 50, 1000}, time \in {1700, 1800, 1900}}

\* the codes of GeolocationPositionError
PositionErrors == {"PERMISSION_DENIED", "POSITION_UNAVAILABLE", "TIMEOUT"}

InitGeo ==
  /\ geolocationSupported \in BOOLEAN
  /\ positionRequest = "none"
  /\ locationPromise = <<>>
  /\ resolveCalls = 0
  /\ StatusIdle /\ NumberIdle /\ RecordIdle /\ FetchIdle /\ RankIdle /\ FormatIdle /\ DistanceIdle /\ ViewIdle /\ StoreIdle /\ ServiceIdle /\ AdminIdle /\ RelationIdle /\ HeapIdle /\ CardIdle /\ ListIdle /\ GridIdle /\ QueryIdle /\ MigrateIdle

\* deliveryService.getCurrentLocation(): the executor of the promise runs
GetCurrentLocation ==
  /\ locationPromise = <<>>
  /\ IF ~geolocationSupported
       THEN /\ locationPromise' = resolve(Unsettled, Null)
            /\ resolveCalls' = resolveCalls + 1
            /\ UNCHANGED positionRequest
       ELSE /\ locationPromise' = Unsettled
            /\ positionRequest' = "waiting"
            /\ UNCHANGED resolveCalls
  /\ UNCHANGED geolocationSupported
  /\ UNCHANGED <<statusVars, numberVars, recordVars, fetchVars, rankVars, formatVars, distanceVars, viewVars, storeVars, serviceVars, adminVars, relationVars, heapVars, cardVars, listVars, gridVars, queryVars, migrateVars>>

\* the browser answers the request with a position
PositionFound(position) ==
  /\ positionRequest = "waiting"
  /\ positionRequest' = "answered"
  /\ locationPromise' = positionCallback(locationPromise, position)
  /\ resolveCalls' = resolveCalls + 1
  /\ UNCHANGED geolocationSupported
  /\ UNCHANGED <<statusVars, numberVars, recordVars, fetchVars, rankVars, formatVars, distanceVars, viewVars, storeVars, serviceVars, adminVars, relationVars, heapVars, cardVars, listVars, gridVars, queryVars, migrateVars>>

\* the browser answers the request with an error: permission denied, no
\* position, or the timeout of 10 seconds
PositionFailed(error) ==
  /\ positionRequest = "waiting"
  /\ positionRequest' = error
  /\ locationPromise' = errorCallback(locationPromise, error)
  /\ resolveCalls' = resolveCalls + 1
  /\ UNCHANGED geolocationSupported
  /\ UNCHANGED <<statusVars, numberVars, recordVars, fetchVars, rankVars, formatVars, distanceVars, viewVars, storeVars, serviceVars, adminVars, relationVars, heapVars, cardVars, listVars, gridVars, queryVars, migrateVars>>

\* the browser answers a request
PositionAnswered ==
  \/ \E position \in Positions : PositionFound(position)
  \/ \E error \in PositionErrors : PositionFailed(error)

GeoNext ==
  \/ GetCurrentLocation
  \/ \E position \in Positions : PositionFound(position)
  \/ \E error \in PositionErrors : PositionFailed(error)

(***************************************************************************)
(* Customers and the deliveries that refer to them: admin.deleteCustomer   *)
(* and deliveries.list                                                     *)
(***************************************************************************)

\* deliveries stored
MaxLinked == 2

\* ids of the customers table; "c9" never had a document
CustomerIds == {"c1", "c2"}

\* the stored deliveries: customerId is the id of a customer or is absent
LinkedDeliveries ==
  {[_id |-> id, customerId |-> customerId, status |-> status] :
     id \in {"k1", "k2"}, customerId \in {StrV(<<c>>) : c \in CustomerIds} \cup {Undefined},
     status \in {Pending, Delivered}}

\* ctx.db.delete(id) of a customer, mutant: the deliveries of the customer are
\* deleted with it
deleteCustomerCascade(table, stored, id) ==
  IF id \notin table THEN [result |-> Threw("Error"), customers |-> table, deliveries |-> stored]
  ELSE [result |-> Returned(BoolV(TRUE)), customers |-> table \ {id},
        deliveries |-> SelectSeq(stored, LAMBDA d : d.customerId # StrV(<<id>>))]

\* admin.deleteCustomer({id}): the document of the customer is deleted, and
\* nothing else is written; deleting a document that does not exist throws
deleteCustomer(table, stored, id) ==
  IF id \notin table THEN [result |-> Threw("Error"), customers |-> table, deliveries |-> stored]
  ELSE [result |-> Returned(BoolV(TRUE)), customers |-> table \ {id}, deliveries |-> stored]

\* ctx.db.get(id) in the customers table: the document, or null
getCustomer(table, id) ==
  IF id.t = "string" /\ Len(id.s) = 1 /\ id.s[1] \in table
    THEN [t |-> "object", _id |-> id]
    ELSE Null

\* the customerRecord that list gives a delivery: the summary of the customer
\* found, undefined when the delivery has no customerId or no customer is found
customerRecordOf(table, delivery) ==
  IF Truthy(delivery.customerId) /\ getCustomer(table, delivery.customerId) # Null
    THEN [t |-> "object", id |-> delivery.customerId]
    ELSE Undefined

\* one element of populatedDeliveries
populate(table, delivery) ==
  [_id |-> delivery._id, customerId |-> delivery.customerId, status |-> delivery.status,
   customerRecord |-> customerRecordOf(table, delivery)]

\* list({status}), mutant: the status is not looked at
listUnfiltered(table, stored, status) ==
  Returned([i \in 1..Len(stored) |-> populate(table, stored[i])])

\* deliveries.list({status}): every delivery populated, filtered by the status
\* when one is given
list(table, stored, status) ==
  IF status # Undefined /\ ~IsLiteralOf(status, deliveriesStatusEnum)
    THEN Threw("ArgumentValidationError")
  ELSE Returned(SelectSeq([i \in 1..Len(stored) |-> populate(table, stored[i])],
                          LAMBDA d : ~Truthy(status) \/ d.status = status.s))

\* the tables at the start: both customers, and deliveries that refer to them
InitRelation ==
  /\ customersTable = CustomerIds
  /\ linkedDeliveries \in {<<>>} \cup {<<d>> : d \in {e \in LinkedDeliveries : e._id = "k1"}}
       \cup {<<d1, d2>> : d1 \in {e \in LinkedDeliveries : e._id = "k1"},
                          d2 \in {e \in LinkedDeliveries : e._id = "k2"}}
  /\ Len(linkedDeliveries) <= MaxLinked
  /\ deliveriesBefore = <<>>
  /\ deletedCustomers = {}
  /\ listArgs = <<>>
  /\ listed = <<>>
  /\ StatusIdle /\ NumberIdle /\ RecordIdle /\ FetchIdle /\ RankIdle /\ FormatIdle /\ DistanceIdle /\ ViewIdle /\ StoreIdle /\ ServiceIdle /\ AdminIdle /\ GeoIdle /\ HeapIdle /\ CardIdle /\ ListIdle /\ GridIdle /\ QueryIdle /\ MigrateIdle

\* a caller runs admin.deleteCustomer({id})
DeleteCustomer(id) ==
  /\ customersTable' = deleteCustomer(customersTable, linkedDeliveries, id).customers
  /\ linkedDeliveries' = deleteCustomer(customersTable, linkedDeliveries, id).deliveries
  /\ deliveriesBefore' = linkedDeliveries
  /\ deletedCustomers' =
       IF deleteCustomer(customersTable, linkedDeliveries, id).result.threw
         THEN deletedCustomers ELSE deletedCustomers \cup {id}
  /\ listArgs' = <<>>
  /\ listed' = <<>>
  /\ UNCHANGED <<statusVars, numberVars, recordVars, fetchVars, rankVars, formatVars, distanceVars, viewVars, storeVars, serviceVars, adminVars, geoVars, heapVars, cardVars, listVars, gridVars, queryVars, migrateVars>>

\* a caller runs deliveries.list({status})
List(status) ==
  /\ listArgs' = [status |-> status]
  /\ listed' = list(customersTable, linkedDeliveries, status)
  /\ UNCHANGED <<customersTable, linkedDeliveries, deliveriesBefore, deletedCustomers>>
  /\ UNCHANGED <<statusVars, numberVars, recordVars, fetchVars, rankVars, formatVars, distanceVars, viewVars, storeVars, serviceVars, adminVars, geoVars, heapVars, cardVars, listVars, gridVars, queryVars, migrateVars>>

RelationNext ==
  \/ \E id \in CustomerIds \cup {"c9"} : DeleteCustomer(id)
  \/ \E status \in {Undefined, StrV(Pending), StrV(Delivered), StrV(<<"x">>)} : List(status)

(***************************************************************************)
(* sortDeliveriesByDistance over the objects it is given: objectHeap[r] is *)
(* the object of reference r, an array is the list of the references it    *)
(* holds                                                                   *)
(***************************************************************************)

\* deliveries in the array passed
MaxObjects == 3

\* the callback of the map, mutant: the distance is assigned to the delivery
\* passed and that delivery is returned
mapCallbackInPlace(objects, reference, location) ==
  [objects |-> [objects EXCEPT ![reference] = withDistance(objects[reference], location)],
   reference |-> reference]

\* the callback of the map for the delivery of a reference: a new object holds
\* the spread of the delivery, distance and distanceText
mapCallback(objects, reference, location) ==
  [objects |-> Append(objects, withDistance(objects[reference], location)),
   reference |-> Len(objects) + 1]

\* deliveries.map(callback): a new array of the references returned
RECURSIVE arrayMap(_, _, _)
arrayMap(objects, array, location) ==
  IF array = <<>> THEN [objects |-> objects, array |-> <<>>]
  ELSE [objects |->
          arrayMap(mapCallback(objects, Head(array), location).objects, Tail(array), location).objects,
        array |->
          <<mapCallback(objects, Head(array), location).reference>>
            \o arrayMap(mapCallback(objects, Head(array), location).objects, Tail(array), location).array]

\* the elements of an array, each with its reference
Referenced(objects, array) ==
  [i \in 1..Len(array) |->
     [x \in DOMAIN objects[array[i]] \cup {"reference"} |->
        IF x = "reference" THEN array[i] ELSE objects[array[i]][x]]]

\* the orders .sort(comparator) may leave in the array it is called on
arraySort(objects, array) ==
  {[i \in 1..Len(array) |-> sorted[i].reference] : sorted \in SortOutcomes(Referenced(objects, array))}

\* sortDeliveriesByDistance(deliveries, driverLocation): what the call may
\* leave in the heap, in the array passed and in the location passed, and the
\* array it returns
sortCall(objects, array, location) ==
  {[objects |-> arrayMap(objects, array, location).objects, deliveries |-> array,
    driverLocation |-> location, returned |-> sorted] :
     sorted \in arraySort(arrayMap(objects, array, location).objects,
                          arrayMap(objects, array, location).array)}

InitHeap ==
  /\ objectHeap = <<>>
  /\ inputArray = <<>>
  /\ locationObject \in DriverLocations
  /\ returnedArray = <<>>
  /\ atCall = <<>>
  /\ StatusIdle /\ NumberIdle /\ RecordIdle /\ FetchIdle /\ RankIdle /\ FormatIdle /\ DistanceIdle /\ ViewIdle /\ StoreIdle /\ ServiceIdle /\ AdminIdle /\ GeoIdle /\ RelationIdle /\ CardIdle /\ ListIdle /\ GridIdle /\ QueryIdle /\ MigrateIdle

\* the caller puts one more delivery into its array
PushDelivery(place) ==
  /\ atCall = <<>>
  /\ Len(inputArray) < MaxObjects
  /\ objectHeap' = Append(objectHeap, DeliveryAt(Len(objectHeap) + 1, place))
  /\ inputArray' = Append(inputArray, Len(objectHeap) + 1)
  /\ UNCHANGED <<locationObject, returnedArray, atCall>>
  /\ UNCHANGED <<statusVars, numberVars, recordVars, fetchVars, rankVars, formatVars, distanceVars, viewVars, storeVars, serviceVars, adminVars, geoVars, relationVars, cardVars, listVars, gridVars, queryVars, migrateVars>>

\* the caller's call of sortDeliveriesByDistance returns
SortCall(outcome) ==
  /\ atCall = <<>>
  /\ atCall' = [objects |-> objectHeap, deliveries |-> inputArray, driverLocation |-> locationObject]
  /\ objectHeap' = outcome.objects
  /\ inputArray' = outcome.deliveries
  /\ locationObject' = outcome.driverLocation
  /\ returnedArray' = outcome.returned
  /\ UNCHANGED <<statusVars, numberVars, recordVars, fetchVars, rankVars, formatVars, distanceVars, viewVars, storeVars, serviceVars, adminVars, geoVars, relationVars, cardVars, listVars, gridVars, queryVars, migrateVars>>

HeapNext ==
  \/ \E place \in Places : PushDelivery(place)
  \/ \E outcome \in sortCall(objectHeap, inputArray, locationObject) : SortCall(outcome)

(***************************************************************************)
(* The driver card: the status buttons of DeliveryCard and                 *)
(* DeliveryList.handleStatusUpdate. cardStatus[id] is the status of the    *)
(* delivery in the list of the view, storedStatus[id] the one in the       *)
(* backend; the mutations of a client run in the order they were sent.     *)
(***************************************************************************)

\* mutations sent and not answered
MaxInFlight == 2

\* the deliveries of the list
CardIds == {"k1", "k2"}

\* the statuses the buttons of a card send, mutant: a card that is not
\* Pending offers to go back to Pending
offeredWithReset(status) ==
  IF status = Pending THEN {OnWay} ELSE {Pending}

\* the statuses the buttons of a card send: Start Delivery on a Pending card,
\* Mark Delivered on an On Way card, no button on any other
offered(status) ==
  IF status = Delivered THEN {}
  ELSE IF status = Pending THEN {OnWay}
  ELSE IF status = OnWay THEN {Delivered}
  ELSE {}

\* the list after setDeliveries(prev => prev.map(...)) for the delivery id
withStatus(prev, id, status) == [prev EXCEPT ![id] = status]

\* the cards at the start show what the backend holds
InitCard ==
  /\ cardStatus \in [CardIds -> Statuses]
  /\ storedStatus = cardStatus
  /\ mutationQueue = <<>>
  /\ lastClick = <<>>
  /\ StatusIdle /\ NumberIdle /\ RecordIdle /\ FetchIdle /\ RankIdle /\ FormatIdle /\ DistanceIdle /\ ViewIdle /\ StoreIdle /\ ServiceIdle /\ AdminIdle /\ GeoIdle /\ RelationIdle /\ HeapIdle /\ ListIdle /\ GridIdle /\ QueryIdle /\ MigrateIdle

\* the driver presses the button of the card of id that sends status:
\* handleStatusChange calls handleStatusUpdate, which sends the mutation
ClickStatus(id, status) ==
  /\ status \in offered(cardStatus[id])
  /\ Len(mutationQueue) < MaxInFlight
  /\ mutationQueue' = Append(mutationQueue, [id |-> id, status |-> status, answer |-> "none"])
  /\ lastClick' = [id |-> id, from |-> cardStatus[id], to |-> status]
  /\ UNCHANGED <<cardStatus, storedStatus>>
  /\ UNCHANGED <<statusVars, numberVars, recordVars, fetchVars, rankVars, formatVars, distanceVars, viewVars, storeVars, serviceVars, adminVars, geoVars, relationVars, heapVars, listVars, gridVars, queryVars, migrateVars>>

\* the position in the queue of the first mutation that has not run
FirstWaiting(queue) ==
  IF \E i \in 1..Len(queue) : queue[i].answer = "none"
    THEN CHOOSE i \in 1..Len(queue) :
           queue[i].answer = "none" /\ \A j \in 1..(i - 1) : queue[j].answer # "none"
    ELSE 0

\* the backend runs the oldest mutation that has not run (deliveries.updateStatus
\* writes the status), or the mutation fails and writes nothing
RunMutation(reachable) ==
  /\ FirstWaiting(mutationQueue) > 0
  /\ mutationQueue' =
       [mutationQueue EXCEPT ![FirstWaiting(mutationQueue)].answer =
          IF reachable /\ mutationQueue[FirstWaiting(mutationQueue)].status \in schemaStatusEnum
            THEN "true" ELSE "false"]
  /\ storedStatus' =
       IF reachable /\ mutationQueue[FirstWaiting(mutationQueue)].status \in schemaStatusEnum
         THEN withStatus(storedStatus, mutationQueue[FirstWaiting(mutationQueue)].id,
                         mutationQueue[FirstWaiting(mutationQueue)].status)
         ELSE storedStatus
  /\ UNCHANGED <<cardStatus, lastClick>>
  /\ UNCHANGED <<statusVars, numberVars, recordVars, fetchVars, rankVars, formatVars, distanceVars, viewVars, storeVars, serviceVars, adminVars, geoVars, relationVars, heapVars, listVars, gridVars, queryVars, migrateVars>>

\* handleStatusUpdate resumes with the answer of updateDeliveryStatus: the
\* list is updated when it is true
HandleStatusUpdate ==
  /\ mutationQueue # <<>>
  /\ Head(mutationQueue).answer # "none"
  /\ mutationQueue' = Tail(mutationQueue)
  /\ cardStatus' =
       IF Head(mutationQueue).answer = "true"
         THEN withStatus(cardStatus, Head(mutationQueue).id, Head(mutationQueue).status)
         ELSE cardStatus
  /\ UNCHANGED <<storedStatus, lastClick>>
  /\ UNCHANGED <<statusVars, numberVars, recordVars, fetchVars, rankVars, formatVars, distanceVars, viewVars, storeVars, serviceVars, adminVars, geoVars, relationVars, heapVars, listVars, gridVars, queryVars, migrateVars>>

CardNext ==
  \/ \E id \in CardIds : \E status \in Statuses : ClickStatus(id, status)
  \/ \E reachable \in BOOLEAN : RunMutation(reachable)
  \/ HandleStatusUpdate

(***************************************************************************)
(* The state of DeliveryList and its effects. listLocation is the state    *)
(* driverLocation: 0 for null, and n for the n-th location object that     *)
(* getCurrentLocation resolved with. A load is a call of loadDeliveries    *)
(* that awaits getDeliveries: it holds the filter and the location of the  *)
(* render whose loadDeliveries was called. The queries of the one client   *)
(* are answered in the order they were sent. listDeliveries is the filter  *)
(* and the location that the list passed to setDeliveries was computed for.*)
(***************************************************************************)

\* calls of getCurrentLocation made by the Refresh link
MaxRefreshes == 2

\* loads that await their answer
MaxLoads == 3

\* the keys of the filter buttons
FilterKeys == {"all", "Pending", "Delivered"}

\* loadDeliveries of the render with location and key, called while the state
\* driverLocation is latest
Load(location, key, latest, caller) ==
  [location |-> location, filter |-> key, latest |-> latest, caller |-> caller]

\* the effect of [driverLocation, filter, driverId]: the loads after it ran in
\* a render with location, permission and key
reloadEffect(queue, location, permission, key) ==
  IF location # 0 \/ permission = "false"
    THEN Append(queue, Load(location, key, location, "effect"))
    ELSE queue

\* the component is mounted: loading starts true, the first effect has called
\* requestLocationPermission, and the second effect has found driverLocation
\* and locationPermission null
InitList ==
  /\ listLocation = 0
  /\ locationPermission = "null"
  /\ filter \in {"all"}
  /\ loading = TRUE
  /\ listDeliveries = <<>>
  /\ loads = reloadEffect(<<>>, 0, "null", "all")
  /\ locationRequests = <<[caller |-> "mount", location |-> 0, filter |-> "all"]>>
  /\ locationsObtained = 0
  /\ StatusIdle /\ NumberIdle /\ RecordIdle /\ FetchIdle /\ RankIdle /\ FormatIdle /\ DistanceIdle /\ ViewIdle /\ StoreIdle /\ ServiceIdle /\ AdminIdle /\ GeoIdle /\ RelationIdle /\ HeapIdle /\ CardIdle /\ GridIdle /\ QueryIdle /\ MigrateIdle

\* the requests but the one at position i
Without(requests, i) == SubSeq(requests, 1, i - 1) \o SubSeq(requests, i + 1, Len(requests))

\* requestLocationPermission resumes with the answer of getCurrentLocation: a
\* location is stored and the effect of driverLocation runs; with null only
\* locationPermission is set, which is no dependency of the effect
RequestLocationPermission(i, found) ==
  /\ i \in 1..Len(locationRequests)
  /\ locationRequests[i].caller = "mount"
  /\ locationRequests' = Without(locationRequests, i)
  /\ IF found
       THEN /\ listLocation' = locationsObtained + 1
            /\ locationsObtained' = locationsObtained + 1
            /\ locationPermission' = "true"
            /\ loads' = reloadEffect(loads, locationsObtained + 1, "true", filter)
            /\ loading' = TRUE
       ELSE /\ locationPermission' = "false"
            /\ UNCHANGED <<listLocation, locationsObtained, loads, loading>>
  /\ UNCHANGED <<filter, listDeliveries>>
  /\ UNCHANGED <<statusVars, numberVars, recordVars, fetchVars, rankVars, formatVars, distanceVars, viewVars, storeVars, serviceVars, adminVars, geoVars, relationVars, heapVars, cardVars, gridVars, queryVars, migrateVars>>

\* the list is rendered: neither the loading nor the error view is
Rendered == ~loading

\* a filter button: setFilter(key), and the effect of filter runs when the key
\* is another
SetFilter(key) ==
  /\ Rendered
  /\ key # filter
  /\ Len(loads) < MaxLoads
  /\ filter' = key
  /\ loads' = reloadEffect(loads, listLocation, locationPermission, key)
  /\ loading' = (loading \/ reloadEffect(loads, listLocation, locationPermission, key) # loads)
  /\ UNCHANGED <<listLocation, locationPermission, listDeliveries, locationRequests, locationsObtained>>
  /\ UNCHANGED <<statusVars, numberVars, recordVars, fetchVars, rankVars, formatVars, distanceVars, viewVars, storeVars, serviceVars, adminVars, geoVars, relationVars, heapVars, cardVars, gridVars, queryVars, migrateVars>>

\* the Refresh Deliveries button: loadDeliveries of the render shown
RefreshDeliveries ==
  /\ Rendered
  /\ Len(loads) < MaxLoads
  /\ loads' = Append(loads, Load(listLocation, filter, listLocation, "button"))
  /\ loading' = TRUE
  /\ UNCHANGED <<listLocation, locationPermission, filter, listDeliveries, locationRequests, locationsObtained>>
  /\ UNCHANGED <<statusVars, numberVars, recordVars, fetchVars, rankVars, formatVars, distanceVars, viewVars, storeVars, serviceVars, adminVars, geoVars, relationVars, heapVars, cardVars, gridVars, queryVars, migrateVars>>

\* the Refresh link: refreshLocation of the render shown calls
\* getCurrentLocation
RefreshLocation ==
  /\ Rendered
  /\ locationsObtained + Len(locationRequests) < MaxRefreshes + 1
  /\ locationRequests' =
       Append(locationRequests, [caller |-> "refresh", location |-> listLocation, filter |-> filter])
  /\ UNCHANGED <<listLocation, locationPermission, filter, loading, listDeliveries, loads, locationsObtained>>
  /\ UNCHANGED <<statusVars, numberVars, recordVars, fetchVars, rankVars, formatVars, distanceVars, viewVars, storeVars, serviceVars, adminVars, geoVars, relationVars, heapVars, cardVars, gridVars, queryVars, migrateVars>>

\* refreshLocation resumes with the answer of getCurrentLocation: with a
\* location it calls setDriverLocation and then the loadDeliveries of its own
\* render, and the effect of driverLocation runs after it; with null it alerts
RefreshLocationAnswered(i, found) ==
  /\ i \in 1..Len(locationRequests)
  /\ locationRequests[i].caller = "refresh"
  /\ found => Len(loads) + 2 <= MaxLoads
  /\ locationRequests' = Without(locationRequests, i)
  /\ IF found
       THEN /\ listLocation' = locationsObtained + 1
            /\ locationsObtained' = locationsObtained + 1
            /\ loads' =
                 reloadEffect(
                   Append(loads, Load(locationRequests[i].location, locationRequests[i].filter,
                                      locationsObtained + 1, "refreshLocation")),
                   locationsObtained + 1, locationPermission, filter)
            /\ loading' = TRUE
       ELSE UNCHANGED <<listLocation, locationsObtained, loads, loading>>
  /\ UNCHANGED <<locationPermission, filter, listDeliveries>>
  /\ UNCHANGED <<statusVars, numberVars, recordVars, fetchVars, rankVars, formatVars, distanceVars, viewVars, storeVars, serviceVars, adminVars, geoVars, relationVars, heapVars, cardVars, gridVars, queryVars, migrateVars>>

\* the oldest load resumes with the answer of getDeliveries: setDeliveries
\* with the list for its filter, ranked from its location or labelled unknown
\* when that is null, and setLoading(false)
LoadAnswered ==
  /\ loads # <<>>
  /\ loads' = Tail(loads)
  /\ listDeliveries' = [filter |-> Head(loads).filter, location |-> Head(loads).location]
  /\ loading' = FALSE
  /\ UNCHANGED <<listLocation, locationPermission, filter, locationRequests, locationsObtained>>
  /\ UNCHANGED <<statusVars, numberVars, recordVars, fetchVars, rankVars, formatVars, distanceVars, viewVars, storeVars, serviceVars, adminVars, geoVars, relationVars, heapVars, cardVars, gridVars, queryVars, migrateVars>>

\* getCurrentLocation settles a call
LocationAnswered ==
  \E i \in 1..Len(locationRequests) : \E found \in BOOLEAN :
    \/ RequestLocationPermission(i, found)
    \/ RefreshLocationAnswered(i, found)

ListNext ==
  \/ \E i \in 1..Len(locationRequests) : \E found \in BOOLEAN : RequestLocationPermission(i, found)
  \/ \E key \in FilterKeys : SetFilter(key)
  \/ RefreshDeliveries
  \/ RefreshLocation
  \/ \E i \in 1..Len(locationRequests) : \E found \in BOOLEAN : RefreshLocationAnswered(i, found)
  \/ LoadAnswered

(***************************************************************************)
(* The admin orders grid: OrdersGrid.saveEdit, the driver select of a row  *)
(* and the orders that AdminDashboard passes. orders is the prop of the    *)
(* grid, localOrders its state, storedOrders what the backend holds; an    *)
(* order is written as its notes and its driver. AdminDashboard passes no  *)
(* onDeleteOrder, so the grid shows no delete button.                      *)
(***************************************************************************)

\* calls of onUpdateOrder that await their answer, and calls made in all
MaxPending == 2

MaxUpdates == 3

\* the orders of the grid
OrderIds == {"k1", "k2"}

\* the notes an editor types and the drivers the select offers ("" is No
\* Driver)
NotesTyped == {"", "n"}

DriversOffered == {"", "d1"}

\* prevOrders.map(order => order._id === id ? { ...order, ...data } : order)
withEdit(prevOrders, id, data) == [prevOrders EXCEPT ![id] = data]

\* a call of onUpdateOrder made by handler in a render whose prop was
\* ordersThen
UpdateRequest(id, data, ordersThen, handler) ==
  [id |-> id, data |-> data, orders |-> ordersThen, handler |-> handler, fresh |-> TRUE]

\* saveEdit awaits its answer: saving is true and the save button is disabled
Saving(requests) == \E i \in 1..Len(requests) : requests[i].handler = "saveEdit"

\* the state localOrders after a handler resumed with the answer success: a
\* failure sets it to the prop orders of the handler's render
afterAnswer(current, request, success) == IF success THEN current ELSE request.orders

\* the dashboard has loaded the orders and the grid is mounted with them
InitGrid ==
  /\ storedOrders \in [OrderIds -> {[notes |-> "", driverId |-> d] : d \in DriversOffered}]
  /\ orders = storedOrders
  /\ localOrders = storedOrders
  /\ updateRequests = <<>>
  /\ acceptedEdits = [id \in OrderIds |-> <<>>]
  /\ updatesMade = 0
  /\ StatusIdle /\ NumberIdle /\ RecordIdle /\ FetchIdle /\ RankIdle /\ FormatIdle /\ DistanceIdle /\ ViewIdle /\ StoreIdle /\ ServiceIdle /\ AdminIdle /\ GeoIdle /\ RelationIdle /\ HeapIdle /\ CardIdle /\ ListIdle /\ QueryIdle /\ MigrateIdle

\* the admin edits the row of id and presses save: saveEdit updates localOrders
\* and calls onUpdateOrder
SaveEdit(id, notes) ==
  /\ Len(updateRequests) < MaxPending
  /\ updatesMade < MaxUpdates
  /\ updatesMade' = updatesMade + 1
  /\ ~Saving(updateRequests)
  /\ notes # localOrders[id].notes
  /\ localOrders' = withEdit(localOrders, id, [localOrders[id] EXCEPT !.notes = notes])
  /\ updateRequests' =
       Append(updateRequests,
              UpdateRequest(id, [localOrders[id] EXCEPT !.notes = notes], orders, "saveEdit"))
  /\ UNCHANGED <<orders, storedOrders, acceptedEdits>>
  /\ UNCHANGED <<statusVars, numberVars, recordVars, fetchVars, rankVars, formatVars, distanceVars, viewVars, storeVars, serviceVars, adminVars, geoVars, relationVars, heapVars, cardVars, listVars, queryVars, migrateVars>>

\* the admin chooses a driver in the select of the row of id, which is not the
\* row being saved: onChange updates localOrders and calls onUpdateOrder
ChangeDriver(id, driverId) ==
  /\ Len(updateRequests) < MaxPending
  /\ updatesMade < MaxUpdates
  /\ updatesMade' = updatesMade + 1
  /\ \A i \in 1..Len(updateRequests) :
       updateRequests[i].handler = "saveEdit" => updateRequests[i].id # id
  /\ driverId # localOrders[id].driverId
  /\ localOrders' = withEdit(localOrders, id, [localOrders[id] EXCEPT !.driverId = driverId])
  /\ updateRequests' =
       Append(updateRequests,
              UpdateRequest(id, [localOrders[id] EXCEPT !.driverId = driverId], orders, "onChange"))
  /\ UNCHANGED <<orders, storedOrders, acceptedEdits>>
  /\ UNCHANGED <<statusVars, numberVars, recordVars, fetchVars, rankVars, formatVars, distanceVars, viewVars, storeVars, serviceVars, adminVars, geoVars, relationVars, heapVars, cardVars, listVars, queryVars, migrateVars>>

\* adminService.updateOrder answers the oldest call: true when the backend
\* wrote the order, false when the mutation failed; the handler resumes
UpdateAnswered(success) ==
  /\ updateRequests # <<>>
  /\ updateRequests' = Tail(updateRequests)
  /\ storedOrders' =
       IF success THEN withEdit(storedOrders, Head(updateRequests).id, Head(updateRequests).data)
       ELSE storedOrders
  /\ localOrders' = afterAnswer(localOrders, Head(updateRequests), success)
  /\ acceptedEdits' =
       IF success /\ Head(updateRequests).fresh
         THEN [acceptedEdits EXCEPT ![Head(updateRequests).id] = Head(updateRequests).data]
         ELSE acceptedEdits
  /\ UNCHANGED <<orders, updatesMade>>
  /\ UNCHANGED <<statusVars, numberVars, recordVars, fetchVars, rankVars, formatVars, distanceVars, viewVars, storeVars, serviceVars, adminVars, geoVars, relationVars, heapVars, cardVars, listVars, queryVars, migrateVars>>

\* loadData of the dashboard: the orders are read and passed to the grid, whose
\* effect of [orders] sets localOrders
LoadData ==
  /\ orders' = storedOrders
  /\ localOrders' = storedOrders
  /\ acceptedEdits' = [id \in OrderIds |-> <<>>]
  /\ updateRequests' = [i \in 1..Len(updateRequests) |-> [updateRequests[i] EXCEPT !.fresh = FALSE]]
  /\ UNCHANGED <<storedOrders, updatesMade>>
  /\ UNCHANGED <<statusVars, numberVars, recordVars, fetchVars, rankVars, formatVars, distanceVars, viewVars, storeVars, serviceVars, adminVars, geoVars, relationVars, heapVars, cardVars, listVars, queryVars, migrateVars>>

GridNext ==
  \/ \E id \in OrderIds : \E notes \in NotesTyped : SaveEdit(id, notes)
  \/ \E id \in OrderIds : \E driverId \in DriversOffered : ChangeDriver(id, driverId)
  \/ \E success \in BOOLEAN : UpdateAnswered(success)
  \/ LoadData

(***************************************************************************)
(* getDeliveries(status) over deliveries.list and the deliveries table     *)
(***************************************************************************)

\* deliveries stored
MaxStored == 3

\* the answer of client.query(api.deliveries.list, args) as the client gets it:
\* the records of the list, or the error of the query
queryAnswer(listResult) ==
  IF listResult.threw THEN ErrorResponse
  ELSE ArrayResponse(
         [i \in 1..Len(listResult.value) |->
            RecordOf({"_id", "_creationTime", "customerId", "customerName", "latitude",
                      "longitude", "status", "priority", "createdAt", "updatedAt",
                      "customerRecord"},
                     [_id |-> StrV(<<listResult.value[i]._id>>),
                      _creationTime |-> NumV(Int2Num(1000)),
                      customerId |-> listResult.value[i].customerId,
                      customerName |-> StrV(S_abc),
                      latitude |-> NumV(Fin(407, -1)), longitude |-> NumV(Fin(-74, 0)),
                      status |-> StrV(listResult.value[i].status),
                      priority |-> StrV(<<"h", "i", "g", "h">>),
                      createdAt |-> StrV(IsoString(Int2Num(7))),
                      updatedAt |-> StrV(IsoString(Int2Num(9))),
                      customerRecord |-> listResult.value[i].customerRecord])])

\* getDeliveries(status) over the table: the arguments are { status } when the
\* status is truthy and {} otherwise
getDeliveriesOf(table, stored, status, now) ==
  getDeliveries(queryAnswer(list(table, stored, IF Truthy(status) THEN status ELSE Undefined)), now)

InitQuery ==
  /\ queryTable = <<>>
  /\ askedStatus = <<>>
  /\ answered = <<>>
  /\ StatusIdle /\ NumberIdle /\ RecordIdle /\ FetchIdle /\ RankIdle /\ FormatIdle /\ DistanceIdle /\ ViewIdle /\ StoreIdle /\ ServiceIdle /\ AdminIdle /\ GeoIdle /\ RelationIdle /\ HeapIdle /\ CardIdle /\ ListIdle /\ GridIdle /\ MigrateIdle

\* admin.createOrder: one more delivery, stored as Pending
CreateOrder ==
  /\ Len(queryTable) < MaxStored
  /\ queryTable' =
       Append(queryTable,
              [_id |-> IntDigits(Len(queryTable) + 1)[1], customerId |-> StrV(<<"c1">>),
               status |-> Pending])
  /\ askedStatus' = <<>>
  /\ answered' = <<>>
  /\ UNCHANGED <<statusVars, numberVars, recordVars, fetchVars, rankVars, formatVars, distanceVars, viewVars, storeVars, serviceVars, adminVars, geoVars, relationVars, heapVars, cardVars, listVars, gridVars, migrateVars>>

\* deliveries.updateStatus writes a status of the schema into the delivery
\* number i
WriteStatus(i, status) ==
  /\ i \in 1..Len(queryTable)
  /\ status \in schemaStatusEnum
  /\ status # queryTable[i].status
  /\ queryTable' = [queryTable EXCEPT ![i].status = status]
  /\ askedStatus' = <<>>
  /\ answered' = <<>>
  /\ UNCHANGED <<statusVars, numberVars, recordVars, fetchVars, rankVars, formatVars, distanceVars, viewVars, storeVars, serviceVars, adminVars, geoVars, relationVars, heapVars, cardVars, listVars, gridVars, migrateVars>>

\* a caller awaits deliveryService.getDeliveries(status)
GetDeliveriesByStatus(status) ==
  /\ askedStatus' = status
  /\ answered' = getDeliveriesOf(CustomerIds, queryTable, StrV(status), Int2Num(1700))
  /\ UNCHANGED queryTable
  /\ UNCHANGED <<statusVars, numberVars, recordVars, fetchVars, rankVars, formatVars, distanceVars, viewVars, storeVars, serviceVars, adminVars, geoVars, relationVars, heapVars, cardVars, listVars, gridVars, migrateVars>>

QueryNext ==
  \/ CreateOrder
  \/ \E i \in 1..MaxStored : \E status \in Statuses : WriteStatus(i, status)
  \/ \E status \in Statuses : GetDeliveriesByStatus(status)

(***************************************************************************)
(* admin.fixDeliveriesSchema over the three tables                         *)
(***************************************************************************)

\* deliveries stored before the migration runs; at most one customer and one
\* product are
MaxLegacy == 2

S_default == <<"d", "e", "f", "a", "u", "l", "t">>
S_general == <<"g", "e", "n", "e", "r", "a", "l">>
S_GeneralDeliveryItem ==
  <<"G", "e", "n", "e", "r", "a", "l", " ", "D", "e", "l", "i", "v", "e", "r", "y", " ",
    "I", "t", "e", "m">>

CustomerPhones == {<<"1">>, <<"2">>}
CustomerNames == {<<"A">>, <<"B">>}
ProductTitles ==
  {<<"P", "i", "z", "z", "a">>, <<"D", "E", "F", "A", "U", "L", "T", " ", "b", "o", "x">>}

\* String.prototype.includes
includes(s, word) == \E i \in 1..(Len(s) + 1) : StartsWith(s, i, word)

\* the _id that ctx.db.insert gives the n-th document of a table
insertedId(prefix, n) == StrV(<<prefix>> \o IntDigits(n))

\* Array.prototype.find as the index of the first element that satisfies
\* Test, 0 for undefined
find(array, Test(_)) ==
  IF \E i \in 1..Len(array) : Test(array[i])
    THEN CHOOSE i \in 1..Len(array) : Test(array[i]) /\ \A j \in 1..(i - 1) : ~Test(array[j])
    ELSE 0

\* customers.find(customer => customer.phone === delivery.customerPhone ||
\*                            customer.name === delivery.customerName)
matchingCustomer(snapshot, delivery) ==
  find(snapshot, LAMBDA customer : \/ customer.phone = delivery.customerPhone
                                   \/ customer.name = delivery.customerName)

\* products.find(p => p.title.toLowerCase().includes('default') ||
\*                    p.title.toLowerCase().includes('general'))
defaultProduct(snapshot) ==
  find(snapshot, LAMBDA p : \/ includes(toLowerCase(p.title), S_default)
                            \/ includes(toLowerCase(p.title), S_general))

\* the customer of the array read before the loop that matches the delivery,
\* undefined when there is none
matchingCustomerId(db, snapshot, delivery) ==
  IF matchingCustomer(snapshot, delivery) # 0
    THEN snapshot[matchingCustomer(snapshot, delivery)]._id
    ELSE Undefined

\* "Fix missing customerId": db is the database and the updates of this
\* delivery
fixCustomerId(db, snapshot, delivery) ==
  IF Truthy(delivery.customerId) THEN db
  ELSE IF matchingCustomerId(db, snapshot, delivery) # Undefined
    THEN [db EXCEPT !.customerId = matchingCustomerId(db, snapshot, delivery),
                    !.needsUpdate = TRUE]
  ELSE [db EXCEPT !.customers =
                     Append(@, [_id |-> insertedId("c", Len(@) + 1),
                                name |-> delivery.customerName,
                                phone |-> delivery.customerPhone]),
                  !.customerId = insertedId("c", Len(db.customers) + 1),
                  !.needsUpdate = TRUE]

\* "Fix missing productId"
fixProductId(db, snapshot, delivery) ==
  IF Truthy(delivery.productId) THEN db
  ELSE IF defaultProduct(snapshot) = 0
    THEN [db EXCEPT !.products =
                       Append(@, [_id |-> insertedId("p", Len(@) + 1),
                                  title |-> S_GeneralDeliveryItem]),
                    !.productId = insertedId("p", Len(db.products) + 1),
                    !.needsUpdate = TRUE]
  ELSE [db EXCEPT !.productId = snapshot[defaultProduct(snapshot)]._id,
                  !.needsUpdate = TRUE]

\* ctx.db.patch(delivery._id, updates) and fixedCount++ when needsUpdate; the
\* updates and needsUpdate of the next delivery start empty
patchDelivery(db, i) ==
  [db EXCEPT
     !.deliveries[i].customerId = IF db.customerId # Undefined THEN db.customerId ELSE @,
     !.deliveries[i].productId = IF db.productId # Undefined THEN db.productId ELSE @,
     !.fixedCount = IF db.needsUpdate THEN @ + 1 ELSE @,
     !.customerId = Undefined, !.productId = Undefined, !.needsUpdate = FALSE]

\* for (const delivery of deliveries), from the delivery number i on: the three
\* arrays are the ones collected before the loop
RECURSIVE fixLoop(_, _, _, _, _)
fixLoop(db, deliveriesRead, customersRead, productsRead, i) ==
  IF i > Len(deliveriesRead) THEN db
  ELSE fixLoop(patchDelivery(fixProductId(fixCustomerId(db, customersRead, deliveriesRead[i]),
                                          productsRead, deliveriesRead[i]), i),
               deliveriesRead, customersRead, productsRead, i + 1)

\* the handler of fixDeliveriesSchema
fixDeliveriesSchema(stored, storedCustomers, storedProducts) ==
  fixLoop([deliveries |-> stored, customers |-> storedCustomers, products |-> storedProducts,
           fixedCount |-> 0, customerId |-> Undefined, productId |-> Undefined,
           needsUpdate |-> FALSE],
          stored, storedCustomers, storedProducts, 1)

InitMigrate ==
  /\ legacyDeliveries = <<>>
  /\ legacyCustomers = <<>>
  /\ legacyProducts = <<>>
  /\ beforeFix = <<>>
  /\ fixResult = <<>>
  /\ StatusIdle /\ NumberIdle /\ RecordIdle /\ FetchIdle /\ RankIdle /\ FormatIdle /\ DistanceIdle /\ ViewIdle /\ StoreIdle /\ ServiceIdle /\ AdminIdle /\ GeoIdle /\ RelationIdle /\ HeapIdle /\ CardIdle /\ ListIdle /\ GridIdle /\ QueryIdle

IdsOf(table) == {table[i]._id : i \in 1..Len(table)}

\* admin.createCustomer before the migration
StoreCustomer(name, phone) ==
  /\ beforeFix = <<>>
  /\ legacyCustomers = <<>>
  /\ legacyCustomers' =
       Append(legacyCustomers,
              [_id |-> insertedId("c", Len(legacyCustomers) + 1), name |-> name, phone |-> phone])
  /\ UNCHANGED <<legacyDeliveries, legacyProducts, beforeFix, fixResult>>
  /\ UNCHANGED <<statusVars, numberVars, recordVars, fetchVars, rankVars, formatVars, distanceVars, viewVars, storeVars, serviceVars, adminVars, geoVars, relationVars, heapVars, cardVars, listVars, gridVars, queryVars>>

\* admin.createProduct before the migration
StoreProduct(title) ==
  /\ beforeFix = <<>>
  /\ legacyProducts = <<>>
  /\ legacyProducts' =
       Append(legacyProducts,
              [_id |-> insertedId("p", Len(legacyProducts) + 1), title |-> title])
  /\ UNCHANGED <<legacyDeliveries, legacyCustomers, beforeFix, fixResult>>
  /\ UNCHANGED <<statusVars, numberVars, recordVars, fetchVars, rankVars, formatVars, distanceVars, viewVars, storeVars, serviceVars, adminVars, geoVars, relationVars, heapVars, cardVars, listVars, gridVars, queryVars>>

\* a delivery stored before the migration: customerId and productId are
\* optional in the schema
StoreLegacyDelivery(name, phone, customerId, productId) ==
  /\ beforeFix = <<>>
  /\ Len(legacyDeliveries) < MaxLegacy
  /\ customerId \in {Undefined} \cup IdsOf(legacyCustomers)
  /\ productId \in {Undefined} \cup IdsOf(legacyProducts)
  /\ legacyDeliveries' =
       Append(legacyDeliveries,
              [_id |-> insertedId("d", Len(legacyDeliveries) + 1), customerName |-> name,
               customerPhone |-> phone, customerId |-> customerId, productId |-> productId])
  /\ UNCHANGED <<legacyCustomers, legacyProducts, beforeFix, fixResult>>
  /\ UNCHANGED <<statusVars, numberVars, recordVars, fetchVars, rankVars, formatVars, distanceVars, viewVars, storeVars, serviceVars, adminVars, geoVars, relationVars, heapVars, cardVars, listVars, gridVars, queryVars>>

\* one run of the mutation
FixDeliveriesSchema ==
  /\ beforeFix = <<>>
  /\ beforeFix' = [deliveries |-> legacyDeliveries, customers |-> legacyCustomers,
                   products |-> legacyProducts]
  /\ legacyDeliveries' =
       fixDeliveriesSchema(legacyDeliveries, legacyCustomers, legacyProducts).deliveries
  /\ legacyCustomers' =
       fixDeliveriesSchema(legacyDeliveries, legacyCustomers, legacyProducts).customers
  /\ legacyProducts' =
       fixDeliveriesSchema(legacyDeliveries, legacyCustomers, legacyProducts).products
  /\ fixResult' =
       [success |-> TRUE,
        fixedCount |->
          fixDeliveriesSchema(legacyDeliveries, legacyCustomers, legacyProducts).fixedCount,
        totalDeliveries |-> Len(legacyDeliveries)]
  /\ UNCHANGED <<statusVars, numberVars, recordVars, fetchVars, rankVars, formatVars, distanceVars, viewVars, storeVars, serviceVars, adminVars, geoVars, relationVars, heapVars, cardVars, listVars, gridVars, queryVars>>

MigrateNext ==
  \/ \E name \in CustomerNames : \E phone \in CustomerPhones : StoreCustomer(name, phone)
  \/ \E title \in ProductTitles : StoreProduct(title)
  \/ \E name \in CustomerNames : \E phone \in CustomerPhones :
       \E customerId \in {Undefined} \cup IdsOf(legacyCustomers) :
         \E productId \in {Undefined} \cup IdsOf(legacyProducts) :
           StoreLegacyDelivery(name, phone, customerId, productId)
  \/ FixDeliveriesSchema

(***************************************************************************)
(* Specifications: each one runs the calls of one operation and leaves the *)
(* variables of the others as they are.                                    *)
(***************************************************************************)

SpecStatus == InitStatus /\ [][StatusNext]_vars

SpecNumber == InitNumber /\ [][NumberNext]_vars

SpecRecord == InitRecord /\ [][RecordNext]_vars

SpecFetch == InitFetch /\ [][FetchNext]_vars

SpecRank == InitRank /\ [][RankNext]_vars

SpecFormat == InitFormat /\ [][FormatNext]_vars

SpecDistance == InitDistance /\ [][DistanceNext]_vars

SpecView == InitView /\ [][ViewNext]_vars

SpecStore == InitStore /\ [][StoreNext]_vars

SpecService == InitService /\ [][ServiceNext]_vars

SpecAdmin == InitAdmin /\ [][AdminNext]_vars

SpecGeo == InitGeo /\ [][GeoNext]_vars

\* the executor runs when the method is called, and the browser calls one of
\* the two callbacks of every request (at the latest when the timeout expires)
SpecGeoFair == SpecGeo /\ WF_vars(GetCurrentLocation) /\ WF_vars(PositionAnswered)

SpecRelation == InitRelation /\ [][RelationNext]_vars

SpecHeap == InitHeap /\ [][HeapNext]_vars

SpecCard == InitCard /\ [][CardNext]_vars

SpecList == InitList /\ [][ListNext]_vars

\* getCurrentLocation settles every call (it always resolves) and the backend
\* answers every query
SpecListFair == SpecList /\ WF_vars(LocationAnswered) /\ WF_vars(LoadAnswered)

SpecGrid == InitGrid /\ [][GridNext]_vars

SpecQuery == InitQuery /\ [][QueryNext]_vars

SpecMigrate == InitMigrate /\ [][MigrateNext]_vars

\* the whole of s, apart from white space around it, is a number with a finite
\* value
IsNumericString(s) ==
  /\ IsFinite(parseFloatPrefix(s).value)
  /\ parseFloatPrefix(s).end > Len(trimEnd(s))

\* C6: toNumber returns a finite number unchanged, the value of a numeric
\* string, and the fallback for every other value, among them the strings that
\* are not entirely a number.
C6_ToNumberContract ==
  numberCalled =>
    IF numberValue.t = "number" /\ IsFinite(numberValue.n)
      THEN numberResult = numberValue.n
    ELSE IF numberValue.t = "string" /\ IsNumericString(numberValue.s)
      THEN numberResult = parseFloat(numberValue.s)
    ELSE numberResult = numberFallback

\* C4: normalizeStatus returns one of the five canonical statuses for every
\* value, and Pending for every value that is not a string or that comes from
\* a word the code does not list.
C4_StatusIsCanonical ==
  statusCalls > 0 =>
    /\ statusResult \in Statuses
    /\ (statusCalls = 1 /\ (statusValue.t # "string" \/ statusBase \in UnknownWords))
         => statusResult = Pending

\* an unlisted word, written with added white space or capitals, was normalised
C4_Witness ==
  /\ statusCalls = 1
  /\ statusBase = <<"x", "y", "z", "-", "u", "n", "k", "n", "o", "w", "n">>
  /\ statusValue.s # statusBase
  /\ statusResult = Pending

\* the status the claim's table gives for a listed word
ExpectedStatus(word) ==
  IF word \in PendingKeys THEN Pending
  ELSE IF word \in OnWayKeys THEN OnWay
  ELSE IF word \in DeliveredKeys THEN Delivered
  ELSE IF word \in NoAnswerKeys THEN NoAnswer
  ELSE Cancelled

\* C5: a listed word is mapped to its status whatever the case of its letters,
\* the white space around it and the white space written for its separator.
C5_SynonymsMapped ==
  (statusCalls = 1 /\ statusBase \in KnownWords)
    => statusResult = ExpectedStatus(statusBase)

\* "in_progress" written with capitals and added white space gave On Way
C5_Witness ==
  /\ statusCalls = 1
  /\ statusBase = <<"i", "n", "_", "p", "r", "o", "g", "r", "e", "s", "s">>
  /\ CountIn(statusValue.s, UpperCaseSet) > 0
  /\ CountIn(statusValue.s, WhiteSpace) > 1
  /\ statusResult = OnWay

C1_NonDecreasing ==
  rankCalled =>
    \A i \in 1..(Len(ranked) - 1) : Le(ranked[i].distance.n, ranked[i + 1].distance.n)

\* the place in the list returned of the delivery with this _id
RankOf(id) == CHOOSE k \in 1..Len(ranked) : ranked[k]._id = id

\* the distance computed for the i-th delivery passed
ComputedDistance(i) == withDistance(deliveries[i], driverLocation).distance.n

IsWithDistance(rankedDelivery, delivery) ==
  /\ DOMAIN rankedDelivery = DOMAIN delivery \cup {"distance", "distanceText"}
  /\ \A x \in DOMAIN delivery : rankedDelivery[x] = delivery[x]
  /\ rankedDelivery.distance.t = "number"
  /\ rankedDelivery.distanceText = StrV(formatDistance(rankedDelivery.distance.n))

\* C3: the list sortDeliveriesByDistance returns has the length of the list
\* passed and is a permutation of it, each delivery with all its fields and
\* with distance and distanceText = formatDistance(distance) added; the empty
\* list gives the empty list.
C3_PermutationWithDistance ==
  rankCalled =>
    /\ Len(ranked) = Len(deliveries)
    /\ \E p \in Orders(Len(deliveries)) :
         \A i \in 1..Len(deliveries) : IsWithDistance(ranked[i], deliveries[p[i]])

\* a list of three or more deliveries was ranked and came back in another order
C3_Witness ==
  /\ rankCalled
  /\ Len(ranked) >= 3
  /\ \E i \in 1..Len(ranked) : ranked[i]._id # deliveries[i]._id

(***************************************************************************)
(* Record normaliser claims, checked under SpecRecord                      *)
(***************************************************************************)

\* the raw value holds no finite number: it is absent, of another type, a
\* number that is not finite, or a string that does not start with a number
NoFiniteNumber(v) ==
  IF v.t = "number" THEN ~IsFinite(v.n)
  ELSE IF v.t = "string" THEN ~IsFinite(parseFloat(v.s))
  ELSE TRUE

\* C7: the latitude and longitude of every record mapFromConvex returns are
\* finite numbers, whatever the raw record held, and are 0 when the raw
\* coordinate is absent or cannot be parsed.
C7_FiniteCoordinates ==
  (mapCalled /\ ~mapResult.threw) =>
    \A x \in {"latitude", "longitude"} :
      /\ mapResult.value[x].t = "number"
      /\ IsFinite(mapResult.value[x].n)
      /\ NoFiniteNumber(Get(rawRecord, x)) => mapResult.value[x].n = Zero

\* a record whose latitude is text and whose longitude is a number that is not
\* finite was normalised
C7_Witness ==
  /\ mapCalled
  /\ ~mapResult.threw
  /\ Get(rawRecord, "latitude") = StrV(S_abc)
  /\ Get(rawRecord, "longitude").t = "number"
  /\ ~IsFinite(Get(rawRecord, "longitude").n)

\* C10: the priority of every record mapFromConvex returns is one of low,
\* medium, high and urgent, and is medium when the raw record has none.
C10_PriorityInEnum ==
  (mapCalled /\ ~mapResult.threw) =>
    /\ mapResult.value.priority \in {StrV(p) : p \in Priorities}
    /\ Nullish(Get(rawRecord, "priority"))
         => mapResult.value.priority = StrV(<<"m", "e", "d", "i", "u", "m">>)

\* the property x of a delivery that mapFromConvex returned
DeliveryField(delivery, x) == IF x \in DOMAIN delivery THEN delivery[x] ELSE Undefined

\* C11: in a normalised record createdAt is the raw createdAt when the raw
\* record has one, otherwise the ISO string of the creation-time epoch whenever
\* the raw record has an epoch (whatever number it is), otherwise the ISO
\* string of the current time; updatedAt is the raw updatedAt when the raw
\* record has one and createdAt otherwise; both are always defined.
C11_Timestamps ==
  (mapCalled /\ rawRecord.t = "object") =>
    /\ ~mapResult.threw
    /\ mapResult.value.createdAt =
         IF ~Nullish(Get(rawRecord, "createdAt")) THEN Get(rawRecord, "createdAt")
         ELSE IF Get(rawRecord, "_creationTime").t = "number" /\ IsFinite(Get(rawRecord, "_creationTime").n)
           THEN StrV(IsoString(TimeClip(Get(rawRecord, "_creationTime").n)))
         ELSE StrV(IsoString(mapTime))
    /\ mapResult.value.updatedAt =
         IF ~Nullish(Get(rawRecord, "updatedAt")) THEN Get(rawRecord, "updatedAt")
         ELSE mapResult.value.createdAt
    /\ mapResult.value.createdAt # Undefined
    /\ mapResult.value.updatedAt # Undefined

\* the optional properties of Delivery that the normaliser is to carry over
OptionalFields ==
  {"externalId", "deliveryTime", "estimatedDeliveryTime", "notes", "orderValue", "driver",
   "product", "customerRecord", "customerCity", "customerCountry"}

\* C12: mapFromConvex leaves every optional property of Delivery as the raw
\* record had it: a property the raw record lacks (or holds as null) is absent
\* from the delivery returned, and a value of the property's type is carried
\* over unchanged (an order value is compared when it is absent or a finite
\* number).
C12_OptionalFieldsPassThrough ==
  (mapCalled /\ ~mapResult.threw) =>
    \A x \in OptionalFields :
      LET raw == Get(rawRecord, x)
      IN  IF x = "orderValue" /\ raw # Undefined /\ ~(raw.t = "number" /\ IsFinite(raw.n)) THEN TRUE
          ELSE IF Nullish(raw) THEN Nullish(DeliveryField(mapResult.value, x))
          ELSE DeliveryField(mapResult.value, x) = raw

(***************************************************************************)
(* Fetch claims, checked under SpecFetch                                   *)
(***************************************************************************)

\* C8: mapFromConvex returns a delivery and does not throw for every record
\* (with fields missing, with fields of the wrong type, null or not an object),
\* so that getDeliveries returns one delivery for each record of the answer and
\* no record makes the list fail.
C8_NoRecordFailsTheList ==
  (fetchCalled /\ response.kind = "array") => Len(fetched) = Len(response.items)

(***************************************************************************)
(* Distance text claims, checked under SpecFormat                          *)
(***************************************************************************)

\* the decimal digits of the integers nearest to m * 10^s (m >= 0): one
\* integer, or the two neighbours of a value that ends in one half
NearestIntegers(m, s) ==
  IF m = 0 THEN {<<"0">>}
  ELSE IF s >= 0 THEN {IntDigits(m) \o Zeros(s)}
  ELSE IF -s > 9 THEN {<<"0">>}
  ELSE {IntDigits(n) : n \in {c \in {m \div Pow10(-s), (m \div Pow10(-s)) + 1} :
                                 2 * Abs(c * Pow10(-s) - m) <= Pow10(-s)}}

\* the text the contract gives for the distance x >= 0: metres below one
\* kilometre, kilometres with one decimal place from one kilometre on
ContractTexts(x) ==
  IF Lt(x, One)
    THEN {n \o <<"m">> : n \in NearestIntegers(x.m, x.e + 3)}
    ELSE {SubSeq(n, 1, Len(n) - 1) \o <<".", n[Len(n)], "k", "m">> :
            n \in NearestIntegers(x.m, x.e + 1)}

BelowToFixedLimit(x) == x.e + Precision <= 21

StrictEquals(x, y) == ~IsNaN(x) /\ ~IsNaN(y) /\ x = y

\* C14: calculateDistance(lat, lon, lat, lon) is 0 for every point (lat, lon).
C14_DistanceToSelfIsZero ==
  distanceCalled => StrictEquals(distanceSelf, Zero)

\* the distance from a point away from the origin to itself was calculated
C14_Witness ==
  /\ distanceCalled
  /\ fromPoint = <<41, -74>>
  /\ distanceSelf = Zero

\* C15: calculateDistance is symmetric: for all points a and b,
\* calculateDistance(a.lat, a.lon, b.lat, b.lon) ==
\* calculateDistance(b.lat, b.lon, a.lat, a.lon).
C15_Symmetric ==
  distanceCalled => StrictEquals(distanceThere, distanceBack)

(***************************************************************************)
(* Driver view claims, checked under SpecView                              *)
(***************************************************************************)

\* C16: when the driver location is known, the deliveries of the driver view
\* are in order of proximity: from the top to the bottom of the list the
\* distance of each delivery is <= that of the next, deliveries at (0, 0)
\* included.
C16_ViewSortedByDistance ==
  (loadCalled /\ locationKnown) =>
    \A i \in 1..(Len(shown) - 1) : Le(shown[i].distance.n, shown[i + 1].distance.n)

\* C24: in the driver list a delivery is labelled 'Location unknown' (with
\* distance 0) exactly when both its latitude and its longitude are 0 or when
\* no driver location is available; a delivery with any other coordinates
\* keeps the distance and label computed by the ranking.
C24_UnknownOnlyForSentinel ==
  loadCalled =>
    \A i \in 1..Len(shown) :
      IF ~locationKnown \/ (shown[i].latitude.n = Zero /\ shown[i].longitude.n = Zero)
        THEN shown[i].distanceText = StrV(S_LocationUnknown) /\ shown[i].distance = NumV(Zero)
        ELSE /\ shown[i].distanceText # StrV(S_LocationUnknown)
             /\ shown[i] = withDistance(shown[i], driverLocation)

(***************************************************************************)
(* Backend claims, checked under SpecStore                                 *)
(***************************************************************************)

\* the arguments of updateOrder next to id and status are ones the backend
\* takes: a priority of the enumeration and no product or a stored one
AcceptableDetails(details) ==
  /\ IsLiteralOf(details.priority, Priorities)
  /\ Truthy(details.productId) => details.productId.s \in ProductIds

\* C17: a status update of an existing delivery to any of the five statuses,
\* through deliveries.updateStatus or admin.updateOrder, is accepted whatever
\* the current status is, and the stored status becomes the status asked for.
C17_AnyStatusWritten ==
  (/\ lastMutation # <<>>
   /\ lastMutation.existed
   /\ lastMutation.status \in {StrV(s) : s \in Statuses}
   /\ lastMutation.name = "updateOrder" => AcceptableDetails(lastMutation.details))
    => /\ ~lastMutation.result.threw
       /\ deliveriesTable[lastMutation.id].status = lastMutation.status

(***************************************************************************)
(* Service claims, checked under SpecService                               *)
(***************************************************************************)

\* C18: when the persistence collaborator fails the delivery service fails
\* safe: getDeliveries returns the empty list if the query throws or answers
\* with something that is not an array, updateDeliveryStatus and
\* updateDeliveryTime return false if the mutation throws, and none of the
\* three throws to its caller.
C18_FailSafe ==
  serviceCall # <<>> =>
    /\ ~serviceOutcome.threw
    /\ (serviceCall.name = "getDeliveries" /\ serviceCall.collaborator.kind # "array")
         => serviceOutcome.value = <<>>
    /\ (serviceCall.name # "getDeliveries" /\ serviceCall.collaborator.threw)
         => serviceOutcome.value = BoolV(FALSE)

\* after an earlier call, updateDeliveryStatus returned false for a mutation
\* that threw
C18_Witness ==
  /\ serviceCall # <<>>
  /\ serviceCall.name = "updateDeliveryStatus"
  /\ serviceCall.collaborator.threw
  /\ serviceOutcome = Returned(BoolV(FALSE))
  /\ clock > 1

(***************************************************************************)
(* Admin service claims, checked under SpecAdmin                           *)
(***************************************************************************)

\* the create methods of the admin service
CreateMethods == {"createCustomer", "createProduct", "createDriver", "createOrder"}

\* C19: every create, update and delete method of the admin service reports
\* success or failure without throwing, and every create method (customer,
\* product, driver, order) returns the id string of the new record when its
\* mutation succeeds.
C19_AdminReports ==
  adminCall # <<>> =>
    /\ ~adminOutcome.threw
    /\ (adminCall.name \in CreateMethods /\ ~adminCall.collaborator.threw)
         => /\ adminOutcome.value.t = "string"
            /\ adminOutcome.value = adminCall.collaborator.value

(***************************************************************************)
(* Location claims, checked under SpecGeoFair                              *)
(***************************************************************************)

\* the promise is never rejected, is resolved at most once, and once settled
\* holds null when geolocation is not supported or the request failed, and the
\* position reported otherwise
LocationSettledRight ==
  /\ locationPromise # <<>> => locationPromise.state # "rejected"
  /\ resolveCalls <= 1
  /\ (locationPromise # <<>> /\ locationPromise.state = "fulfilled") =>
       IF ~geolocationSupported \/ positionRequest \in PositionErrors
         THEN locationPromise.value = Null
         ELSE /\ positionRequest = "answered"
              /\ locationPromise.value \in {locationOf(position) : position \in Positions}

DeliveriesAsked(status) ==
  SelectSeq(linkedDeliveries, LAMBDA d : status = Undefined \/ d.status = status.s)

\* C21: customer references on a delivery are weak: deleting a customer does
\* not delete or modify any delivery that references it, and deliveries.list
\* still returns such a delivery, with its customerRecord summary absent,
\* instead of failing.
C21_WeakReferences ==
  /\ deletedCustomers # {} => linkedDeliveries = deliveriesBefore
  /\ (listed # <<>> /\ (listArgs.status = Undefined \/ IsLiteralOf(listArgs.status, deliveriesStatusEnum))) =>
       /\ ~listed.threw
       /\ Len(listed.value) = Len(DeliveriesAsked(listArgs.status))
       /\ \A i \in 1..Len(listed.value) :
            /\ listed.value[i]._id = DeliveriesAsked(listArgs.status)[i]._id
            /\ listed.value[i].customerId = DeliveriesAsked(listArgs.status)[i].customerId
            /\ listed.value[i].status = DeliveriesAsked(listArgs.status)[i].status
            /\ (listed.value[i].customerId.t = "string"
                  /\ listed.value[i].customerId.s[1] \in deletedCustomers) =>
                 listed.value[i].customerRecord = Undefined

\* a delivery of a deleted customer was listed
C21_Witness ==
  /\ deletedCustomers # {}
  /\ listed # <<>>
  /\ ~listed.threw
  /\ \E i \in 1..Len(listed.value) :
       /\ listed.value[i].customerId.t = "string"
       /\ listed.value[i].customerId.s[1] \in deletedCustomers
       /\ listed.value[i].customerRecord = Undefined

(***************************************************************************)
(* Frame claims, checked under SpecHeap                                    *)
(***************************************************************************)

\* the references an array holds
ReferencesOf(array) == {array[i] : i \in 1..Len(array)}

\* C22: sortDeliveriesByDistance does not modify its arguments or any shared
\* state: after the call the input array holds the same records in the same
\* order, no input record has gained distance or distanceText, and the driver
\* location is unchanged; ranked records exist only in the returned list.
C22_ArgumentsUntouched ==
  atCall # <<>> =>
    /\ inputArray = atCall.deliveries
    /\ \A r \in ReferencesOf(inputArray) :
         /\ objectHeap[r] = atCall.objects[r]
         /\ {"distance", "distanceText"} \cap DOMAIN objectHeap[r] = {}
    /\ locationObject = atCall.driverLocation
    /\ ReferencesOf(returnedArray) \cap ReferencesOf(inputArray) = {}
    /\ Len(returnedArray) = Len(inputArray)
    /\ \A r \in ReferencesOf(returnedArray) :
         {"distance", "distanceText"} \subseteq DOMAIN objectHeap[r]

\* a call with deliveries that the sort had to reorder has returned
C22_Witness ==
  /\ atCall # <<>>
  /\ Len(inputArray) = MaxObjects
  /\ \E i \in 1..Len(inputArray) : returnedArray[i] # Len(inputArray) + i

(***************************************************************************)
(* Purity of the record normaliser, checked under SpecRecord               *)
(***************************************************************************)

\* C23: normalization is a pure function of its input: normalizing the same
\* raw record twice, at any two moments, yields equal records in every field
\* (and fails the second time when it failed the first).
C23_SameRecordAtAnyTime ==
  mapCalled => \A time \in Times : mapFromConvex(rawRecord, time) = mapResult

(***************************************************************************)
(* Driver card claims, checked under SpecCard                              *)
(***************************************************************************)

\* the place of a status on the way Pending -> On Way -> Delivered; No Answer
\* and Cancelled are ends of their own
StatusStep(status) ==
  IF status = Pending THEN 1 ELSE IF status = OnWay THEN 2 ELSE 3

\* a status follows another, or is the same
MovesForward(before, after) ==
  before = after \/ (StatusStep(before) < StatusStep(after) /\ after \in {OnWay, Delivered})

\* C25: every status change the driver card can issue is a transition of the
\* state machine, from Pending only to On Way and from On Way only to
\* Delivered; a card whose delivery is Delivered, No Answer or Cancelled offers
\* no status change; so in any sequence of card actions the status of a
\* delivery, in the list and in the backend, only moves forward.
C25_CardMovesForward ==
  [][/\ lastClick' # <<>> =>
          <<lastClick'.from, lastClick'.to>> \in {<<Pending, OnWay>>, <<OnWay, Delivered>>}
     /\ \A id \in CardIds :
          /\ cardStatus[id] \in {Delivered, NoAnswer, Cancelled} =>
               \A status \in Statuses : ~ENABLED ClickStatus(id, status)
          /\ MovesForward(cardStatus[id], cardStatus'[id])
          /\ MovesForward(storedStatus[id], storedStatus'[id])]_vars

\* a delivery went from Pending to Delivered by the two buttons of its card
C25_Witness ==
  /\ cardStatus["k1"] = Delivered
  /\ storedStatus["k1"] = Delivered
  /\ lastClick = [id |-> "k1", from |-> OnWay, to |-> Delivered]
  /\ mutationQueue = <<>>

(***************************************************************************)
(* Driver list claims, checked under SpecList and SpecListFair             *)
(***************************************************************************)

\* C26: if the device location cannot be obtained (getCurrentLocation resolves
\* null), the driver list still eventually leaves its loading state: the
\* deliveries are fetched and shown, each labelled 'Location unknown'.
C26_LeavesLoading ==
  (locationPermission = "false") ~>
    (~loading /\ listDeliveries # <<>> /\ listDeliveries.location = 0)

\* C27: when several loads overlap, then once all of them have completed the
\* list shown is the one computed by the load started last, for the current
\* filter and ranked from the latest driver location, and the load started by
\* refreshLocation uses the location it just obtained.
C27_LatestLoadShown ==
  /\ (loads = <<>> /\ listDeliveries # <<>>) =>
       listDeliveries = [filter |-> filter, location |-> listLocation]
  /\ \A i \in 1..Len(loads) :
       loads[i].caller = "refreshLocation" => loads[i].location = loads[i].latest

(***************************************************************************)
(* Orders grid claims, checked under SpecGrid                              *)
(***************************************************************************)

\* an edit of the order awaits its answer
EditPending(id) == \E i \in 1..Len(updateRequests) : updateRequests[i].id = id

\* C28: once the backend has accepted an edit of an order, the grid keeps
\* showing the edited values for that order until the parent supplies a
\* freshly loaded orders list; a later edit of any order that fails reverts
\* only the failed change and does not undo the accepted one.
C28_AcceptedEditStays ==
  \A id \in OrderIds :
    (acceptedEdits[id] # <<>> /\ ~EditPending(id)) => localOrders[id] = acceptedEdits[id]

(***************************************************************************)
(* Query claims, checked under SpecQuery                                   *)
(***************************************************************************)

\* the stored deliveries whose normalised status is status, in the order of
\* the table
StoredWithStatus(status) ==
  SelectSeq(queryTable, LAMBDA d : normalizeStatus(StrV(d.status)) = status)

FixRan == beforeFix # <<>>

\* the customers and the products that the run inserted
CustomersCreated == (Len(beforeFix.customers) + 1)..Len(legacyCustomers)
ProductsCreated == (Len(beforeFix.products) + 1)..Len(legacyProducts)

\* C30: a single run of fixDeliveriesSchema creates at most one default
\* product and at most one customer per distinct customer phone and name,
\* however many deliveries lack a productId or customerId; the repaired
\* deliveries that need the same default product or the same customer are
\* linked to the same record.
C30_OneRecordPerNeed ==
  FixRan =>
    /\ Cardinality(ProductsCreated) <= 1
    /\ \A i, j \in CustomersCreated :
         (/\ legacyCustomers[i].phone = legacyCustomers[j].phone
          /\ legacyCustomers[i].name = legacyCustomers[j].name) => i = j
    /\ \A i, j \in 1..Len(legacyDeliveries) :
         (/\ ~Truthy(beforeFix.deliveries[i].productId)
          /\ ~Truthy(beforeFix.deliveries[j].productId))
           => legacyDeliveries[i].productId = legacyDeliveries[j].productId
    /\ \A i, j \in 1..Len(legacyDeliveries) :
         (/\ ~Truthy(beforeFix.deliveries[i].customerId)
          /\ ~Truthy(beforeFix.deliveries[j].customerId)
          /\ legacyDeliveries[i].customerPhone = legacyDeliveries[j].customerPhone
          /\ legacyDeliveries[i].customerName = legacyDeliveries[j].customerName)
           => legacyDeliveries[i].customerId = legacyDeliveries[j].customerId

====
